---------------------------- MODULE Spec2Model ----------------------------
(***************************************************************************)
(* A model of the CV normalisation and validation pipeline of              *)
(* AI-RESUME-FORMATTER:                                                    *)
(*   - the LangChain orchestration (formatCvWithLangChain, provider        *)
(*     fallback, chunking and merge) of src/src/ai/__tests__/              *)
(*     aiProcessor.test.ts lines 149-341;                                  *)
(*   - the programmatic normaliser (normalizeCvData and its helpers) of    *)
(*     the same file, lines 383-519;                                       *)
(*   - the EHS formatting service of src/unnamed/part_005.                 *)
(*                                                                         *)
(* JavaScript strings are TLA+ strings, read one character at a time with  *)
(* Len, Head, Tail, SubSeq and \o, so that every string function is        *)
(* computed character by character, as the code computes it.               *)
(***************************************************************************)
EXTENDS Integers, Sequences, FiniteSets, TLC

(***************************************************************************)
(* Characters and the JavaScript string primitives the code uses.          *)
(***************************************************************************)
DigitChars == "0123456789"

LowerLetters == "abcdefghijklmnopqrstuvwxyz"

UpperLetters == "ABCDEFGHIJKLMNOPQRSTUVWXYZ"

\* the i-th character of s (1-based), a one-character string
Char(s, i) == SubSeq(s, i, i)

CharsOf(s) == {Char(s, i) : i \in 1..Len(s)}

DigitSet == CharsOf(DigitChars)

LowerSet == CharsOf(LowerLetters)

UpperSet == CharsOf(UpperLetters)

IsDigit(c) == c \in DigitSet

IsLower(c) == c \in LowerSet

IsUpper(c) == c \in UpperSet

IsLetter(c) == IsLower(c) \/ IsUpper(c)

\* \w of a JavaScript regular expression
IsWordChar(c) == IsLetter(c) \/ IsDigit(c) \/ c = "_"

\* \s of a JavaScript regular expression (the white space the inputs use)
IsSpace(c) == c \in {" ", "\n", "\t"}

DigitValues == [c \in DigitSet |-> (CHOOSE i \in 1..10 : Char(DigitChars, i) = c) - 1]

DigitVal(c) == DigitValues[c]

LowerOf ==
  [c \in UpperSet |-> Char(LowerLetters, CHOOSE i \in 1..26 : Char(UpperLetters, i) = c)]

UpperOf ==
  [c \in LowerSet |-> Char(UpperLetters, CHOOSE i \in 1..26 : Char(LowerLetters, i) = c)]

toLowerChar(c) == IF IsUpper(c) THEN LowerOf[c] ELSE c

toUpperChar(c) == IF IsLower(c) THEN UpperOf[c] ELSE c

\* String.prototype.toLowerCase
RECURSIVE toLowerCase(_)
toLowerCase(s) ==
  IF Len(s) = 0 THEN "" ELSE toLowerChar(Head(s)) \o toLowerCase(Tail(s))

\* String.prototype.toUpperCase
RECURSIVE toUpperCase(_)
toUpperCase(s) ==
  IF Len(s) = 0 THEN "" ELSE toUpperChar(Head(s)) \o toUpperCase(Tail(s))

\* s.slice(k) with a 0-based k >= 0
sliceFrom(s, k) == IF k >= Len(s) THEN "" ELSE SubSeq(s, k + 1, Len(s))

\* s.charAt(0): the empty string when s is empty
charAt0(s) == IF Len(s) = 0 THEN "" ELSE Head(s)

\* whether pat occurs in s at (1-based) position i, ignoring case when ci
MatchesAt(s, i, pat, ci) ==
  /\ i + Len(pat) - 1 <= Len(s)
  /\ \A k \in 1..Len(pat) :
       IF ci THEN toLowerChar(Char(s, i + k - 1)) = toLowerChar(Char(pat, k))
             ELSE Char(s, i + k - 1) = Char(pat, k)

\* s.includes(pat)
includes(s, pat) == \E i \in 1..Len(s) : MatchesAt(s, i, pat, FALSE)

\* s.replace(/pat/gi, rep) for a literal pattern: leftmost matches, left to
\* right, never overlapping, in one pass over the ORIGINAL string
RECURSIVE ReplaceFrom(_, _, _, _)
ReplaceFrom(s, i, pat, rep) ==
  IF i > Len(s) THEN ""
  ELSE IF MatchesAt(s, i, pat, TRUE)
       THEN rep \o ReplaceFrom(s, i + Len(pat), pat, rep)
       ELSE Char(s, i) \o ReplaceFrom(s, i + 1, pat, rep)

replaceAllCI(s, pat, rep) == ReplaceFrom(s, 1, pat, rep)

\* s.trim()
RECURSIVE trimStart(_)
trimStart(s) ==
  IF Len(s) > 0 /\ IsSpace(Head(s)) THEN trimStart(Tail(s)) ELSE s

RECURSIVE trimEnd(_)
trimEnd(s) ==
  IF Len(s) > 0 /\ IsSpace(Char(s, Len(s)))
  THEN trimEnd(SubSeq(s, 1, Len(s) - 1))
  ELSE s

trim(s) == trimEnd(trimStart(s))

\* s.split(sep) for a one-character separator: always at least one part
RECURSIVE SplitFrom(_, _, _)
SplitFrom(s, sep, cur) ==
  IF Len(s) = 0 THEN <<cur>>
  ELSE IF Head(s) = sep THEN <<cur>> \o SplitFrom(Tail(s), sep, "")
       ELSE SplitFrom(Tail(s), sep, cur \o Head(s))

split(s, sep) == SplitFrom(s, sep, "")

\* parts.join(sep)
RECURSIVE join(_, _)
join(parts, sep) ==
  IF Len(parts) = 0 THEN ""
  ELSE IF Len(parts) = 1 THEN parts[1]
       ELSE parts[1] \o sep \o join(Tail(parts), sep)

\* the decimal numeral of a natural number, as a template literal prints it
RECURSIVE NumeralOf(_)
NumeralOf(n) ==
  IF n < 10 THEN Char(DigitChars, n + 1)
  ELSE NumeralOf(n \div 10) \o Char(DigitChars, (n % 10) + 1)

\* the value of a string of decimal digits
RECURSIVE DigitsValue(_)
DigitsValue(s) ==
  IF Len(s) = 0 THEN 0
  ELSE 10 * DigitsValue(SubSeq(s, 1, Len(s) - 1)) + DigitVal(Char(s, Len(s)))

AllDigits(s) == \A i \in 1..Len(s) : IsDigit(Char(s, i))

AllLetters(s) == \A i \in 1..Len(s) : IsLetter(Char(s, i))

\* the last position of the run of \w characters that starts at i (i - 1 if none)
RECURSIVE WordRunEnd(_, _)
WordRunEnd(s, i) ==
  IF i <= Len(s) /\ IsWordChar(Char(s, i)) THEN WordRunEnd(s, i + 1) ELSE i - 1

\* the last position of the run of \s characters that starts at i (i - 1 if none)
RECURSIVE SpaceRunEnd(_, _)
SpaceRunEnd(s, i) ==
  IF i <= Len(s) /\ IsSpace(Char(s, i)) THEN SpaceRunEnd(s, i + 1) ELSE i - 1

\* \d{4} at position i
FourDigitsAt(s, i) == i + 3 <= Len(s) /\ AllDigits(SubSeq(s, i, i + 3))

(***************************************************************************)
(* The JavaScript Date the code builds with new Date(dateStr).             *)
(*                                                                         *)
(* A date-only ISO string ("2020", "2020-01", "2020-01-15") is midnight    *)
(* UTC of that day; a month name (any word whose first three letters name  *)
(* a month, in any case) followed by a four-digit year is midnight LOCAL   *)
(* time of the first of that month; a string with no digit in it is an     *)
(* Invalid Date.  Those are the forms the inputs of this model take; any   *)
(* other string is taken to be an Invalid Date.  getMonth and getFullYear  *)
(* read the date in local time, so the zone of the host is an input.       *)
(***************************************************************************)

\* the abbreviations both date normalisers print
months ==
  <<"Jan", "Feb", "Mar", "Apr", "May", "Jun",
    "Jul", "Aug", "Sep", "Oct", "Nov", "Dec">>

InvalidDate == [valid |-> FALSE, utc |-> FALSE, y |-> 0, m |-> 0, d |-> 0]

\* the 0-based month a word names by its first three letters, or -1
MonthOfWord(w) ==
  IF Len(w) >= 3 /\ \E i \in 1..12 : toLowerCase(months[i]) = toLowerCase(SubSeq(w, 1, 3))
  THEN (CHOOSE i \in 1..12 : toLowerCase(months[i]) = toLowerCase(SubSeq(w, 1, 3))) - 1
  ELSE -1

IsIsoYear(s) == Len(s) = 4 /\ AllDigits(s)

IsIsoYearMonth(s) ==
  /\ Len(s) = 7
  /\ AllDigits(SubSeq(s, 1, 4)) /\ Char(s, 5) = "-" /\ AllDigits(SubSeq(s, 6, 7))
  /\ DigitsValue(SubSeq(s, 6, 7)) \in 1..12

IsIsoYearMonthDay(s) ==
  /\ Len(s) = 10
  /\ IsIsoYearMonth(SubSeq(s, 1, 7))
  /\ Char(s, 8) = "-" /\ AllDigits(SubSeq(s, 9, 10))
  /\ DigitsValue(SubSeq(s, 9, 10)) \in 1..28

\* "<month word> <yyyy>": letters, one space, four digits
IsMonthNameYear(s) ==
  /\ Len(s) >= 8
  /\ AllLetters(SubSeq(s, 1, Len(s) - 5))
  /\ Char(s, Len(s) - 4) = " "
  /\ AllDigits(SubSeq(s, Len(s) - 3, Len(s)))
  /\ MonthOfWord(SubSeq(s, 1, Len(s) - 5)) >= 0

\* new Date(s)
DateParse(s) ==
  IF IsIsoYear(s)
  THEN [valid |-> TRUE, utc |-> TRUE, y |-> DigitsValue(s), m |-> 0, d |-> 1]
  ELSE IF IsIsoYearMonth(s)
  THEN [valid |-> TRUE, utc |-> TRUE, y |-> DigitsValue(SubSeq(s, 1, 4)),
        m |-> DigitsValue(SubSeq(s, 6, 7)) - 1, d |-> 1]
  ELSE IF IsIsoYearMonthDay(s)
  THEN [valid |-> TRUE, utc |-> TRUE, y |-> DigitsValue(SubSeq(s, 1, 4)),
        m |-> DigitsValue(SubSeq(s, 6, 7)) - 1, d |-> DigitsValue(SubSeq(s, 9, 10))]
  ELSE IF IsMonthNameYear(s)
  THEN [valid |-> TRUE, utc |-> FALSE,
        y |-> DigitsValue(SubSeq(s, Len(s) - 3, Len(s))),
        m |-> MonthOfWord(SubSeq(s, 1, Len(s) - 5)), d |-> 1]
  ELSE InvalidDate

\* whether the local calendar day of a date is the day before its UTC day:
\* midnight UTC read in a zone west of Greenwich (tz: minutes east of UTC)
DayBefore(date, tz) == date.utc /\ tz < 0

\* date.getMonth(), in the local time of the host
getMonth(date, tz) ==
  IF DayBefore(date, tz) /\ date.d = 1 THEN (date.m + 11) % 12 ELSE date.m

\* date.getFullYear(), in the local time of the host
getFullYear(date, tz) ==
  IF DayBefore(date, tz) /\ date.d = 1 /\ date.m = 0 THEN date.y - 1 ELSE date.y

(***************************************************************************)
(* The programmatic normaliser of the TypeScript pipeline.                 *)
(***************************************************************************)

\* /^[A-Za-z]{3} \d{4}$/.test(dateStr)
IsMonYYYY(s) ==
  /\ Len(s) = 8
  /\ AllLetters(SubSeq(s, 1, 3)) /\ Char(s, 4) = " " /\ AllDigits(SubSeq(s, 5, 8))

\* parseInt(s): the digits after leading white space, or -1 for NaN
parseInt(s) ==
  LET t == trimStart(s)
      n == Len(t)
      k == CHOOSE j \in 0..n :
             /\ \A i \in 1..j : IsDigit(Char(t, i))
             /\ j = n \/ ~IsDigit(Char(t, j + 1))
  IN IF k = 0 THEN -1 ELSE DigitsValue(SubSeq(t, 1, k))

\* dateStr.match(/(\w+)\s+(\d{4})/i): the leftmost match as
\* <<word, year>>, or <<>> when there is none.  \w+ and \s+ are greedy and
\* what follows each cannot start inside its run, so a match that starts at
\* i takes the whole run of word characters and the whole run of spaces.
MonthYearMatchAt(s, i) ==
  LET j == WordRunEnd(s, i)
      k == SpaceRunEnd(s, j + 1)
  IN j >= i /\ k > j /\ FourDigitsAt(s, k + 1)

monthYearMatch(s) ==
  IF \E i \in 1..Len(s) : MonthYearMatchAt(s, i)
  THEN LET i == CHOOSE a \in 1..Len(s) :
                  MonthYearMatchAt(s, a) /\ \A b \in 1..(a - 1) : ~MonthYearMatchAt(s, b)
           j == WordRunEnd(s, i)
           k == SpaceRunEnd(s, j + 1)
       IN <<SubSeq(s, i, j), SubSeq(s, k + 1, k + 4)>>
  ELSE <<>>

\* months.findIndex(m => m.toLowerCase() === month.toLowerCase())
monthFindIndex(month) ==
  IF \E i \in 1..12 : toLowerCase(months[i]) = toLowerCase(month)
  THEN (CHOOSE i \in 1..12 : toLowerCase(months[i]) = toLowerCase(month)) - 1
  ELSE -1

\* the "-" branch of normalizeDate (lines 459-467): <<result>> or <<>>
dashBranch(dateStr) ==
  LET parts == split(dateStr, "-")
      year  == parts[1]
      month == IF Len(parts) >= 2 THEN parts[2] ELSE ""
  IN IF includes(dateStr, "-") /\ month # "" /\ year # ""
        /\ parseInt(month) - 1 >= 0 /\ parseInt(month) - 1 < 12
     THEN <<months[parseInt(month)] \o " " \o year>>
     ELSE <<>>

\* the "Month Year" branch of normalizeDate (lines 470-480): <<result>> or <<>>
monthYearBranch(dateStr) ==
  LET mm == monthYearMatch(dateStr)
  IN IF mm # <<>> /\ monthFindIndex(mm[1]) >= 0
     THEN <<months[monthFindIndex(mm[1]) + 1] \o " " \o mm[2]>>
     ELSE <<>>

\* normalizeDate(dateStr) on a host whose zone is tz minutes east of UTC
normalizeDate(dateStr, tz) ==
  IF dateStr = "" THEN dateStr
  ELSE IF IsMonYYYY(dateStr) THEN dateStr
  ELSE LET date == DateParse(dateStr)
       IN IF ~date.valid
          THEN IF dashBranch(dateStr) # <<>> THEN dashBranch(dateStr)[1]
               ELSE IF monthYearBranch(dateStr) # <<>> THEN monthYearBranch(dateStr)[1]
               ELSE dateStr
          ELSE months[getMonth(date, tz) + 1] \o " " \o NumeralOf(getFullYear(date, tz))

\* word.charAt(0).toUpperCase() + word.slice(1).toLowerCase()
capitalizeWord(word) == toUpperCase(charAt0(word)) \o toLowerCase(sliceFrom(word, 1))

\* normalizeJobTitle(title)
normalizeJobTitle(title) ==
  LET words == split(title, " ")
  IN join([i \in 1..Len(words) |-> capitalizeWord(words[i])], " ")

\* normalizeProfileText(text)
normalizeProfileText(text) ==
  trim(replaceAllCI(replaceAllCI(replaceAllCI(replaceAllCI(text,
         "I am responsible for", "Responsible for"),
         "I am ", ""),
         "Principle ", "Principal "),
         "Discrete ", "Discreet "))

\* normalizeBulletPoint(text)
normalizeBulletPoint(text) ==
  trim(replaceAllCI(replaceAllCI(replaceAllCI(replaceAllCI(text,
         "I am responsible for", "Responsible for"),
         "I am ", ""),
         "Principle ", "Principal "),
         "Discrete ", "Discreet "))

(***************************************************************************)
(* CvDraftSchema (zod).  A candidate is a record; a required field is      *)
(* missing when its key is not in the record's domain.  The optional       *)
(* header.photoUrl is carried by no input of this model.                   *)
(***************************************************************************)
HeaderKeys == {"name", "title"}

PersonalDetailsKeys == {"nationality", "languages", "dob", "maritalStatus"}

ExperienceItemKeys == {"role", "company", "startDate", "endDate", "bullets"}

EducationItemKeys == {"degree", "institution", "startDate", "endDate", "details"}

AuditKeys == {"rulesApplied", "issues"}

CvDraftKeys ==
  {"header", "personalDetails", "profile", "experience", "education",
   "skills", "interests", "audit"}

\* z.string().min(1)
MinOneString(s) == Len(s) >= 1

\* z.array(z.string().min(1))
StringArrayOK(xs) == \A i \in 1..Len(xs) : MinOneString(xs[i])

\* z.array(z.string().min(1)).min(1)
MinOneStringArray(xs) == Len(xs) >= 1 /\ StringArrayOK(xs)

HeaderSchemaOK(h) ==
  /\ HeaderKeys \subseteq DOMAIN h
  /\ MinOneString(h.name) /\ MinOneString(h.title)

PersonalDetailsSchemaOK(p) ==
  /\ PersonalDetailsKeys \subseteq DOMAIN p
  /\ MinOneString(p.nationality) /\ MinOneStringArray(p.languages)
  /\ MinOneString(p.dob) /\ MinOneString(p.maritalStatus)

ExperienceItemSchemaOK(e) ==
  /\ ExperienceItemKeys \subseteq DOMAIN e
  /\ MinOneString(e.role) /\ MinOneString(e.company)
  /\ MinOneString(e.startDate) /\ MinOneString(e.endDate)
  /\ MinOneStringArray(e.bullets)

EducationItemSchemaOK(e) ==
  /\ EducationItemKeys \subseteq DOMAIN e
  /\ MinOneString(e.degree) /\ MinOneString(e.institution)
  /\ MinOneString(e.startDate) /\ MinOneString(e.endDate)
  /\ MinOneStringArray(e.details)

AuditSchemaOK(a) ==
  /\ AuditKeys \subseteq DOMAIN a
  /\ StringArrayOK(a.rulesApplied) /\ StringArrayOK(a.issues)

\* whether CvDraftSchema accepts the candidate c
CvDraftSchemaOK(c) ==
  /\ CvDraftKeys \subseteq DOMAIN c
  /\ HeaderSchemaOK(c.header)
  /\ PersonalDetailsSchemaOK(c.personalDetails)
  /\ MinOneString(c.profile)
  /\ Len(c.experience) >= 1
  /\ \A i \in 1..Len(c.experience) : ExperienceItemSchemaOK(c.experience[i])
  /\ Len(c.education) >= 1
  /\ \A i \in 1..Len(c.education) : EducationItemSchemaOK(c.education[i])
  /\ MinOneStringArray(c.skills)
  /\ MinOneStringArray(c.interests)
  /\ AuditSchemaOK(c.audit)

\* a z.object keeps the keys it declares and drops the others
Strip(obj, keys) == [k \in keys |-> obj[k]]

StripExperienceItem(e) == Strip(e, ExperienceItemKeys)

StripEducationItem(e) == Strip(e, EducationItemKeys)

\* the value CvDraftSchema.parse(c) returns for a candidate it accepts
CvDraftSchemaParse(c) ==
  [header          |-> Strip(c.header, HeaderKeys),
   personalDetails |-> Strip(c.personalDetails, PersonalDetailsKeys),
   profile         |-> c.profile,
   experience      |-> [i \in 1..Len(c.experience) |-> StripExperienceItem(c.experience[i])],
   education       |-> [i \in 1..Len(c.education) |-> StripEducationItem(c.education[i])],
   skills          |-> c.skills,
   interests       |-> c.interests,
   audit           |-> Strip(c.audit, AuditKeys)]

(***************************************************************************)
(* normalizeCvData.  "normalized" is a shallow copy of cvData: the arrays  *)
(* and strings it changes are replaced in the copy, but normalized.header  *)
(* IS cvData.header, so the assignment to normalized.header.title         *)
(* (line 415) also changes the title of the record passed in.              *)
(***************************************************************************)
normalizeExperienceDates(exp, tz) ==
  [exp EXCEPT !.startDate = normalizeDate(exp.startDate, tz),
              !.endDate   = normalizeDate(exp.endDate, tz)]

normalizeEducationDates(edu, tz) ==
  [edu EXCEPT !.startDate = normalizeDate(edu.startDate, tz),
              !.endDate   = normalizeDate(edu.endDate, tz)]

normalizeExperienceBullets(exp) ==
  [exp EXCEPT !.bullets = [i \in 1..Len(exp.bullets) |-> normalizeBulletPoint(exp.bullets[i])]]

normalizeEducationDetails(edu) ==
  [edu EXCEPT !.details = [i \in 1..Len(edu.details) |-> normalizeBulletPoint(edu.details[i])]]

\* the title normalizeCvData leaves in the (shared) header
normalizedTitle(title) == IF title # "" THEN normalizeJobTitle(title) ELSE title

\* the record normalizeCvData(cvData) returns
normalizeCvData(cvData, tz) ==
  [cvData EXCEPT
     !.experience =
        [i \in 1..Len(cvData.experience) |->
           normalizeExperienceBullets(normalizeExperienceDates(cvData.experience[i], tz))],
     !.education =
        [i \in 1..Len(cvData.education) |->
           normalizeEducationDetails(normalizeEducationDates(cvData.education[i], tz))],
     !.header.title = normalizedTitle(cvData.header.title),
     !.profile =
        IF cvData.profile # "" THEN normalizeProfileText(cvData.profile)
        ELSE cvData.profile]

\* the record passed to normalizeCvData, as the call leaves it
cvDataAfterNormalize(cvData) ==
  [cvData EXCEPT !.header.title = normalizedTitle(cvData.header.title)]

(***************************************************************************)
(* The EHS formatting service (EHSFormattingService).                      *)
(***************************************************************************)

\* this.inappropriateFields, as written
inappropriateFields ==
  <<"age", "dob", "dateOfBirth", "birthDate", "birthday",
    "dependants", "children", "maritalStatus", "marriage",
    "religion", "ethnicity", "nationality", "race",
    "politicalAffiliation", "politicalParty">>

\* this.inappropriateFields.includes(x)
arrayIncludes(xs, x) == \E i \in 1..Len(xs) : xs[i] = x

\* monthMap of formatDateToEHS
monthMap ==
  [k \in {"january", "february", "march", "april", "may", "june", "july",
          "august", "september", "october", "november", "december",
          "jan", "feb", "mar", "apr", "jun", "jul", "aug", "sep", "oct",
          "nov", "dec"} |->
     months[MonthOfWord(k) + 1]]

\* dateString.match(/(\w+)\s*(\d{4})/i) starting at i with \w+ ending at j
EHSDateMatchAt(s, i, j) ==
  /\ i <= j /\ j <= WordRunEnd(s, i)
  /\ FourDigitsAt(s, SpaceRunEnd(s, j + 1) + 1)

\* the leftmost match, \w+ as long as it can be: <<word, year>>, or <<>>
ehsDateMatch(s) ==
  IF \E i \in 1..Len(s) : \E j \in i..Len(s) : EHSDateMatchAt(s, i, j)
  THEN LET i == CHOOSE a \in 1..Len(s) :
                  /\ \E j \in a..Len(s) : EHSDateMatchAt(s, a, j)
                  /\ \A b \in 1..(a - 1) : \A j \in b..Len(s) : ~EHSDateMatchAt(s, b, j)
           j == CHOOSE a \in i..Len(s) :
                  /\ EHSDateMatchAt(s, i, a)
                  /\ \A b \in (a + 1)..Len(s) : ~EHSDateMatchAt(s, i, b)
           k == SpaceRunEnd(s, j + 1)
       IN <<SubSeq(s, i, j), SubSeq(s, k + 1, k + 4)>>
  ELSE <<>>

\* formatDateToEHS(dateString)
formatDateToEHS(dateString) ==
  IF dateString = "" THEN dateString
  ELSE LET match == ehsDateMatch(dateString)
       IN IF match # <<>>
          THEN (IF toLowerCase(match[1]) \in DOMAIN monthMap
                THEN monthMap[toLowerCase(match[1])]
                ELSE match[1]) \o " " \o match[2]
          ELSE dateString

\* the words capitalizeJobTitle leaves in lower case after the first word
prepositions == <<"of", "in", "at", "on", "by", "for", "to", "with", "a", "an", "the">>

\* word.charAt(0).toUpperCase() + word.slice(1)
upperFirst(word) == toUpperCase(charAt0(word)) \o sliceFrom(word, 1)

\* the callback of titleWords.map in capitalizeJobTitle (index is 0-based)
capitalizeTitleWord(word, index) ==
  IF index = 0 THEN upperFirst(word)
  ELSE IF arrayIncludes(prepositions, word) THEN word
  ELSE upperFirst(word)

\* capitalizeJobTitle(title)
capitalizeJobTitle(title) ==
  IF title = "" THEN title
  ELSE LET titleWords == split(toLowerCase(title), " ")
       IN join([i \in 1..Len(titleWords) |-> capitalizeTitleWord(titleWords[i], i - 1)], " ")

\* whether cleanupPersonalDetails deletes the key
isInappropriateKey(key) == arrayIncludes(inappropriateFields, toLowerCase(key))

\* cleanupPersonalDetails(personalDetails): personalDetails is a record of
\* strings, its DOMAIN the keys the object carries
cleanupPersonalDetails(personalDetails) ==
  [key \in {k \in DOMAIN personalDetails : ~isInappropriateKey(k)} |->
     IF key = "jobTitle" /\ personalDetails[key] # ""
     THEN capitalizeJobTitle(personalDetails[key])
     ELSE IF key \in {"startDate", "endDate"} /\ personalDetails[key] # ""
     THEN formatDateToEHS(personalDetails[key])
     ELSE personalDetails[key]]

\* this.redundantPhrases, in the order forEach visits them
redundantPhrases ==
  <<"I am responsible for", "I am in charge of", "I am accountable for",
    "My role involves", "My responsibilities include", "I have experience in",
    "I am experienced in", "I am skilled in", "I am proficient in">>

\* this.commonMistakes, in the order Object.entries lists them
commonMistakes ==
  <<<<"Principle", "Principal">>, <<"Discrete", "Discreet">>, <<"Affect", "Effect">>,
    <<"Compliment", "Complement">>, <<"Stationary", "Stationery">>, <<"Loose", "Lose">>,
    <<"Advice", "Advise">>, <<"Practice", "Practise">>>>

\* whether the word pat stands at position i of s between two \b, ignoring
\* case
WordMatchesAt(s, i, pat) ==
  /\ MatchesAt(s, i, pat, TRUE)
  /\ (i = 1 \/ ~IsWordChar(Char(s, i - 1)))
  /\ (i + Len(pat) > Len(s) \/ ~IsWordChar(Char(s, i + Len(pat))))

\* s.replace(/\bpat\b/gi, rep) for a word pat, from position i on
RECURSIVE ReplaceWordFrom(_, _, _, _)
ReplaceWordFrom(s, i, pat, rep) ==
  IF i > Len(s) THEN ""
  ELSE IF WordMatchesAt(s, i, pat)
       THEN rep \o ReplaceWordFrom(s, i + Len(pat), pat, rep)
       ELSE Char(s, i) \o ReplaceWordFrom(s, i + 1, pat, rep)

\* the forEach of lines 115-119: every phrase from the k-th on is removed
RECURSIVE removeRedundantPhrases(_, _)
removeRedundantPhrases(cleaned, k) ==
  IF k > Len(redundantPhrases) THEN cleaned
  ELSE removeRedundantPhrases(replaceAllCI(cleaned, redundantPhrases[k], ""), k + 1)

\* the forEach of lines 121-125: every mistake from the k-th on is replaced
RECURSIVE fixCommonMistakes(_, _)
fixCommonMistakes(cleaned, k) ==
  IF k > Len(commonMistakes) THEN cleaned
  ELSE fixCommonMistakes(
         ReplaceWordFrom(cleaned, 1, commonMistakes[k][1], commonMistakes[k][2]), k + 1)

\* professional.replace(/^[a-z]/, match => match.toUpperCase())
upperFirstIfLower(s) ==
  IF Len(s) > 0 /\ IsLower(Head(s)) THEN toUpperChar(Head(s)) \o Tail(s) ELSE s

\* whether s ends with the character c
endsWithChar(s, c) == Len(s) > 0 /\ Char(s, Len(s)) = c

\* convertToProfessionalTone(text)
convertToProfessionalTone(text) ==
  IF text = "" THEN text
  ELSE LET noPronouns ==
             ReplaceWordFrom(ReplaceWordFrom(ReplaceWordFrom(text, 1, "I", ""), 1, "my", ""),
                             1, "me", "")
           capital == upperFirstIfLower(noPronouns)
           closed  == IF endsWithChar(capital, ".") \/ endsWithChar(capital, "!")
                         \/ endsWithChar(capital, "?")
                      THEN capital
                      ELSE capital \o "."
       IN trim(closed)

\* cleanupProfile(profile)
cleanupProfile(profile) ==
  IF profile = "" THEN profile
  ELSE trim(convertToProfessionalTone(
              fixCommonMistakes(removeRedundantPhrases(profile, 1), 1)))

\* /^[A-Z][a-z]{2}\s\d{4}$/.test(s), the dateRegex of validateEHSCompliance
dateRegexTest(s) ==
  /\ Len(s) = 8
  /\ IsUpper(Char(s, 1)) /\ IsLower(Char(s, 2)) /\ IsLower(Char(s, 3))
  /\ IsSpace(Char(s, 4))
  /\ AllDigits(SubSeq(s, 5, 8))

\* the typography check: cvData.typography?.font !== 'Palatino Linotype'
typographyIssues(cvData) ==
  IF "typography" \in DOMAIN cvData /\ "font" \in DOMAIN cvData.typography
     /\ cvData.typography.font = "Palatino Linotype"
  THEN <<>>
  ELSE <<"Font should be Palatino Linotype">>

\* the date check over cvData.experience, entry by entry
RECURSIVE dateFormatIssues(_)
dateFormatIssues(experience) ==
  IF Len(experience) = 0 THEN <<>>
  ELSE (IF experience[1].startDate # "" /\ ~dateRegexTest(experience[1].startDate)
        THEN <<"Date format should be 'Jan 2020' not '" \o experience[1].startDate \o "'">>
        ELSE <<>>)
         \o dateFormatIssues(Tail(experience))

\* the field check over Object.keys(cvData.personalDetails || {}), the keys
\* in the order the object lists them
RECURSIVE inappropriateFieldIssues(_)
inappropriateFieldIssues(personalFields) ==
  IF Len(personalFields) = 0 THEN <<>>
  ELSE (IF arrayIncludes(inappropriateFields, toLowerCase(personalFields[1]))
        THEN <<"Remove inappropriate field: " \o personalFields[1]>>
        ELSE <<>>)
         \o inappropriateFieldIssues(Tail(personalFields))

\* the job title check
jobTitleIssues(cvData) ==
  IF /\ "personalDetails" \in DOMAIN cvData
     /\ "jobTitle" \in DOMAIN cvData.personalDetails
     /\ cvData.personalDetails.jobTitle # ""
     /\ cvData.personalDetails.jobTitle # capitalizeJobTitle(cvData.personalDetails.jobTitle)
  THEN <<"Job title should be properly capitalized">>
  ELSE <<>>

\* a score that is not floored
complianceScoreNoFloor(issueCount) == 100 - issueCount * 10

\* Math.max(0, 100 - (issues.length * 10))
complianceScore(issueCount) ==
  IF 100 - issueCount * 10 > 0 THEN 100 - issueCount * 10 ELSE 0

\* validateEHSCompliance(cvData); personalFields is what Object.keys gives
\* for cvData.personalDetails (<<>> when cvData has none)
validateEHSCompliance(cvData, personalFields) ==
  LET issues ==
        typographyIssues(cvData)
          \o (IF "experience" \in DOMAIN cvData
              THEN dateFormatIssues(cvData.experience) ELSE <<>>)
          \o inappropriateFieldIssues(personalFields)
          \o jobTitleIssues(cvData)
  IN [compliant |-> Len(issues) = 0,
      issues    |-> issues,
      score     |-> complianceScore(Len(issues))]

(***************************************************************************)
(* Array.prototype.sort((a, b) => new Date(b.startDate).getTime() -        *)
(* new Date(a.startDate).getTime()) as Node (V8) runs it on the short      *)
(* arrays of one CV: the initial run is counted (and reversed when it is   *)
(* strictly descending), and the rest is put in place by binary            *)
(* insertion.  A comparator result of NaN (an Invalid Date on either       *)
(* side) counts as 0.                                                      *)
(***************************************************************************)

\* date.getTime() of a valid date, in minutes on a calendar of 31-day
\* months: it orders the dates of this model as the real clock does
getTime(date, tz) ==
  (((date.y - 1970) * 12 + date.m) * 31 + (date.d - 1)) * 1440
    - (IF date.utc THEN 0 ELSE tz)

\* the comparator of lines 274-278 and 295-299, NaN read as 0
compareStartDate(a, b, tz) ==
  LET dateA == DateParse(a.startDate)
      dateB == DateParse(b.startDate)
  IN IF dateA.valid /\ dateB.valid THEN getTime(dateB, tz) - getTime(dateA, tz) ELSE 0

\* the last index (1-based) of the run that starts the array
RECURSIVE RunEnd(_, _, _, _)
RunEnd(arr, idx, isDescending, tz) ==
  IF idx > Len(arr) THEN idx - 1
  ELSE LET order == compareStartDate(arr[idx], arr[idx - 1], tz)
       IN IF (isDescending /\ order >= 0) \/ (~isDescending /\ order < 0)
          THEN idx - 1
          ELSE RunEnd(arr, idx + 1, isDescending, tz)

ReversePrefix(arr, n) ==
  [i \in 1..Len(arr) |-> IF i <= n THEN arr[n + 1 - i] ELSE arr[i]]

\* the 0-based slot binary insertion finds for pivot in arr[left..right)
RECURSIVE InsertionPoint(_, _, _, _, _)
InsertionPoint(arr, pivot, left, right, tz) ==
  IF left >= right THEN left
  ELSE LET mid == left + ((right - left) \div 2)
       IN IF compareStartDate(pivot, arr[mid + 1], tz) < 0
          THEN InsertionPoint(arr, pivot, left, mid, tz)
          ELSE InsertionPoint(arr, pivot, mid + 1, right, tz)

\* arr with the element at 0-based index start moved to 0-based index slot
MoveTo(arr, start, slot) ==
  [i \in 1..Len(arr) |->
     IF i - 1 < slot \/ i - 1 > start THEN arr[i]
     ELSE IF i - 1 = slot THEN arr[start + 1]
     ELSE arr[i - 1]]

RECURSIVE BinaryInsertionSort(_, _, _)
BinaryInsertionSort(arr, start, tz) ==
  IF start >= Len(arr) THEN arr
  ELSE BinaryInsertionSort(
         MoveTo(arr, start, InsertionPoint(arr, arr[start + 1], 0, start, tz)),
         start + 1, tz)

\* unique.sort(comparator)
sortByStartDateDesc(arr, tz) ==
  IF Len(arr) < 2 THEN arr
  ELSE LET isDescending == compareStartDate(arr[2], arr[1], tz) < 0
           runLength    == RunEnd(arr, 3, isDescending, tz)
           run          == IF isDescending THEN ReversePrefix(arr, runLength) ELSE arr
       IN BinaryInsertionSort(run, runLength, tz)

(***************************************************************************)
(* mergeChunkResults and its helpers.                                      *)
(***************************************************************************)

\* xs.flatMap(x => x) for a sequence of sequences
RECURSIVE flatten(_)
flatten(xss) == IF Len(xss) = 0 THEN <<>> ELSE xss[1] \o flatten(Tail(xss))

\* as uniqueByKey below, but of the elements with one key the last is kept
RECURSIVE uniqueByKeyKeepsLast(_, _, _)
uniqueByKeyKeepsLast(xs, keys, seen) ==
  IF Len(xs) = 0 THEN <<>>
  ELSE IF \E k \in 2..Len(keys) : keys[k] = keys[1]
       THEN uniqueByKeyKeepsLast(Tail(xs), Tail(keys), seen)
       ELSE <<xs[1]>> \o uniqueByKeyKeepsLast(Tail(xs), Tail(keys), seen)

\* the elements of xs whose key is new, in first-seen order: the
\* "seen" loop of lines 265-271, and Array.from(new Set(xs))
RECURSIVE uniqueByKey(_, _, _)
uniqueByKey(xs, keys, seen) ==
  IF Len(xs) = 0 THEN <<>>
  ELSE IF keys[1] \in seen THEN uniqueByKey(Tail(xs), Tail(keys), seen)
       ELSE <<xs[1]>> \o uniqueByKey(Tail(xs), Tail(keys), seen \cup {keys[1]})

\* `${exp.company}-${exp.role}-${exp.startDate}`
experienceKey(exp) == exp.company \o "-" \o exp.role \o "-" \o exp.startDate

\* `${edu.institution}-${edu.degree}-${edu.startDate}`
educationKey(edu) == edu.institution \o "-" \o edu.degree \o "-" \o edu.startDate

\* deduplicateAndMergeExperience(experiences)
deduplicateAndMergeExperience(experiences, tz) ==
  sortByStartDateDesc(
    uniqueByKey(experiences, [i \in 1..Len(experiences) |-> experienceKey(experiences[i])], {}), tz)

\* deduplicateAndMergeEducation(education)
deduplicateAndMergeEducation(education, tz) ==
  sortByStartDateDesc(
    uniqueByKey(education, [i \in 1..Len(education) |-> educationKey(education[i])], {}), tz)

\* Array.from(new Set(xs)) for strings
arrayFromSet(xs) == uniqueByKey(xs, xs, {})

\* mergeChunkResults(chunkResults) for two or more results
mergedResult(chunkResults, tz) ==
  [chunkResults[1] EXCEPT
     !.experience = deduplicateAndMergeExperience(
        flatten([i \in 1..Len(chunkResults) |-> chunkResults[i].experience]), tz),
     !.education = deduplicateAndMergeEducation(
        flatten([i \in 1..Len(chunkResults) |-> chunkResults[i].education]), tz),
     !.skills = arrayFromSet(
        flatten([i \in 1..Len(chunkResults) |-> chunkResults[i].skills])),
     !.interests = arrayFromSet(
        flatten([i \in 1..Len(chunkResults) |-> chunkResults[i].interests])),
     !.audit =
        [rulesApplied |-> arrayFromSet(
           flatten([i \in 1..Len(chunkResults) |-> chunkResults[i].audit.rulesApplied])),
         issues |-> arrayFromSet(
           flatten([i \in 1..Len(chunkResults) |-> chunkResults[i].audit.issues]))]]

\* what a call ends with: a value returned, or an error thrown
Returned(value) == [status |-> "returned", value |-> <<value>>, error |-> ""]

Threw(message) == [status |-> "threw", value |-> <<>>, error |-> message]

Pending == [status |-> "pending", value |-> <<>>, error |-> ""]

\* mergeChunkResults(chunkResults)
mergeChunkResults(chunkResults, tz) ==
  IF Len(chunkResults) = 0 THEN Threw("No chunks were processed successfully")
  ELSE IF Len(chunkResults) = 1 THEN Returned(chunkResults[1])
  ELSE Returned(mergedResult(chunkResults, tz))

(***************************************************************************)
(* processWithProvider and processSingleChunk.                             *)
(***************************************************************************)

\* PROVIDERS (lines 94-113): the display name of each configured provider
PROVIDERS == [openai |-> "OpenAI", anthropic |-> "Anthropic", gemini |-> "Google Gemini"]

\* getAvailableProviders(), given the providers whose key constant is set
getAvailableProviders(keys) ==
  (IF "openai" \in keys THEN <<"openai">> ELSE <<>>)
    \o (IF "anthropic" \in keys THEN <<"anthropic">> ELSE <<>>)
    \o (IF "gemini" \in keys THEN <<"gemini">> ELSE <<>>)

\* the error createLLMInstance throws for a provider whose key is not set
keyNotConfigured ==
  [openai    |-> "OpenAI API key not configured",
   anthropic |-> "Anthropic API key not configured",
   gemini    |-> "Google API key not configured"]

\* what one call ends with: a CvDraft, or an exception (an Error carrying
\* a message, or a thrown value that is no Error)
Ok(value) == [ok |-> TRUE, value |-> <<value>>, isError |-> FALSE, message |-> ""]

Fail(message) == [ok |-> FALSE, value |-> <<>>, isError |-> TRUE, message |-> message]

FailWithNonError == [ok |-> FALSE, value |-> <<>>, isError |-> FALSE, message |-> ""]

\* processWithProvider without the parse of line 340: whatever JSON the chain
\* yields is handed back
validateResultSkipped(result) == Ok(result)

\* CvDraftSchema.parse(result) at the end of processWithProvider (line 340)
validateResult(result) ==
  IF CvDraftSchemaOK(result) THEN Ok(CvDraftSchemaParse(result)) ELSE Fail("ZodError")

\* processWithProvider(rawText, providerName), given the keys that are set
\* and what the provider's chain does for this call: it throws, or it
\* yields a parsed JSON value
processWithProvider(providerName, keys, response) ==
  IF providerName \notin DOMAIN PROVIDERS
  THEN Fail("Unknown provider: " \o providerName)
  ELSE IF providerName \notin keys
  THEN Fail(keyNotConfigured[providerName])
  ELSE IF response.kind = "throwError" THEN Fail(response.message)
  ELSE IF response.kind = "throwValue" THEN FailWithNonError
  ELSE validateResult(response.value)

\* the message of the error processSingleChunk throws after the loop
allFailedMessage(lastError) ==
  "All AI providers failed. Last error: "
    \o (IF lastError = <<>> THEN "undefined" ELSE lastError[1])

\* a call of processSingleChunk as it starts: before its first await, or
\* already rejected when there is no provider to try.
\* tried: the providers called so far; log: who was called and how it ended;
\* lastLine: the most recent console line of the call
startSingleChunk(providers) ==
  [state       |-> IF Len(providers) = 0 THEN "threw" ELSE "running",
   tried       |-> 0,
   lastError   |-> <<>>,
   log         |-> <<>>,
   lastLine    |-> <<>>,
   outcome     |-> IF Len(providers) = 0 THEN Threw(allFailedMessage(<<>>)) ELSE Pending]

\* a catch block that keeps the first error it saw
caughtErrorKeepsFirst(lastError, attempt) ==
  IF lastError # <<>> THEN lastError
  ELSE IF attempt.isError THEN <<attempt.message>> ELSE <<"Unknown error">>

\* the catch block of the loop (lines 178-182): what lastError becomes
caughtError(lastError, attempt) ==
  IF attempt.isError THEN <<attempt.message>> ELSE <<"Unknown error">>

\* the line console.warn prints for a failed call (line 179)
warnedLine(providerName, attempt) ==
  providerName \o " failed: "
    \o (IF attempt.isError THEN attempt.message ELSE "Unknown error")

\* the line console.log prints for a call that succeeded (line 176)
successLine(providerName) == "Successfully processed CV with " \o providerName

\* a loop that gives up one provider early
loopContinuesButLast(tried, providers) == tried < Len(providers) - 1

\* whether the loop goes on to another provider after a failed call
loopContinues(tried, providers) == tried < Len(providers)

\* one turn of the loop of processSingleChunk: the call for the next
\* provider settles, and the function returns, goes on, or runs out of
\* providers and throws
singleChunkStep(call, providers, keys, response) ==
  LET providerName == providers[call.tried + 1]
      attempt      == processWithProvider(providerName, keys, response)
      tried        == call.tried + 1
  IN IF attempt.ok
     THEN [call EXCEPT
             !.state = "returned", !.tried = tried, !.lastError = <<>>,
             !.log = Append(@, [provider |-> providerName, ok |-> TRUE]),
             !.lastLine = <<successLine(providerName)>>,
             !.outcome = Returned(attempt.value[1])]
     ELSE LET lastError == caughtError(call.lastError, attempt)
              failed == [call EXCEPT
                           !.tried = tried, !.lastError = lastError,
                           !.log = Append(@, [provider |-> providerName, ok |-> FALSE]),
                           !.lastLine = <<warnedLine(providerName, attempt)>>]
          IN IF loopContinues(tried, providers) THEN failed
             ELSE [failed EXCEPT !.state = "threw",
                                 !.outcome = Threw(allFailedMessage(lastError))]

(***************************************************************************)
(* formatCvWithLangChain and processWithChunking.                          *)
(***************************************************************************)

\* a slot of the array Promise.all is filling that has no value yet
Unsettled == <<[unsettled |-> TRUE]>>

\* the value of chunk index's promise: the draft processSingleChunk
\* returned, or null when it threw (the .catch of lines 208-211)
chunkValue(outcome) == IF outcome.status = "returned" THEN outcome.value ELSE <<>>

\* an array filled in the order the promises settle: the value goes to the
\* first slot that is still free
promiseAllSettleByCompletion(values, index, value) ==
  LET free == CHOOSE k \in 1..Len(values) :
                /\ values[k] = Unsettled
                /\ \A j \in 1..(k - 1) : values[j] # Unsettled
  IN [values EXCEPT ![free] = value]

\* Promise.all, as the promise of the chunk at index (1-based) settles: the
\* value goes to the chunk's own index of the array, whatever the order the
\* promises settle in
promiseAllSettle(values, index, value) == [values EXCEPT ![index] = value]

\* Promise.all over the promises of calls, as far as they have settled
RECURSIVE promiseAllStart(_, _, _)
promiseAllStart(values, cs, index) ==
  IF index > Len(cs) THEN values
  ELSE promiseAllStart(
         IF cs[index].state = "running" THEN values
         ELSE promiseAllSettle(values, index, chunkValue(cs[index].outcome)),
         cs, index + 1)

\* as filterBoolean below, but only the first draft is kept
RECURSIVE filterBooleanKeepsFirst(_)
filterBooleanKeepsFirst(values) ==
  IF Len(values) = 0 THEN <<>>
  ELSE IF values[1] = <<>> THEN filterBooleanKeepsFirst(Tail(values))
       ELSE <<values[1][1]>>

\* chunkResults.filter(Boolean)
RECURSIVE filterBoolean(_)
filterBoolean(values) ==
  IF Len(values) = 0 THEN <<>>
  ELSE (IF values[1] = <<>> THEN <<>> ELSE <<values[1][1]>>)
         \o filterBoolean(Tail(values))

(***************************************************************************)
(* The inputs of the pipeline: what the providers answer.                  *)
(***************************************************************************)
ExpAcme ==
  [role |-> "Engineer", company |-> "Acme", startDate |-> "Jan 2020",
   endDate |-> "Present", bullets |-> <<"Built APIs">>]

ExpInitech ==
  [role |-> "Analyst", company |-> "Initech", startDate |-> "Mar 2018",
   endDate |-> "Dec 2019", bullets |-> <<"Wrote reports">>]

ExpGlobex ==
  [role |-> "Lead", company |-> "Globex", startDate |-> "2021-06",
   endDate |-> "Present", bullets |-> <<"Led a team">>]

ExpHooli ==
  [role |-> "Intern", company |-> "Hooli", startDate |-> "Unknown",
   endDate |-> "Mar 2018", bullets |-> <<"Fixed bugs">>]

EduMit ==
  [degree |-> "BSc", institution |-> "MIT", startDate |-> "Sep 2014",
   endDate |-> "Jun 2017", details |-> <<"Computer science">>]

EduOxford ==
  [degree |-> "MSc", institution |-> "Oxford", startDate |-> "2017-09",
   endDate |-> "Sep 2018", details |-> <<"Statistics">>]

PersonAnn ==
  [nationality |-> "Irish", languages |-> <<"English">>, dob |-> "Jan 1990",
   maritalStatus |-> "Single"]

\* the top of the document: the header and profile are there
DraftTop ==
  [header |-> [name |-> "Ann Lee", title |-> "Lead Engineer"],
   personalDetails |-> PersonAnn,
   profile |-> "Engineer with ten years of experience.",
   experience |-> <<ExpGlobex, ExpAcme>>,
   education |-> <<EduOxford>>,
   skills |-> <<"React", "SQL">>,
   interests |-> <<"Chess">>,
   audit |-> [rulesApplied |-> <<"date-format">>, issues |-> <<>>]]

\* a later part of the document, overlapping the top by one entry
DraftMiddle ==
  [header |-> [name |-> "Unknown", title |-> "Engineer"],
   personalDetails |-> PersonAnn,
   profile |-> "Not stated.",
   experience |-> <<[ExpAcme EXCEPT !.endDate = "Dec 2020"], ExpInitech>>,
   education |-> <<[EduOxford EXCEPT !.endDate = "Oct 2018"], EduMit>>,
   skills |-> <<"react", "Go">>,
   interests |-> <<"Chess", "Golf">>,
   audit |-> [rulesApplied |-> <<"date-format", "title-case">>,
              issues |-> <<"no header in this part">>]]

\* the end of the document
DraftEnd ==
  [header |-> [name |-> "A. Lee", title |-> "Intern"],
   personalDetails |-> PersonAnn,
   profile |-> "Early career.",
   experience |-> <<ExpInitech, ExpHooli>>,
   education |-> <<EduMit>>,
   skills |-> <<"SQL">>,
   interests |-> <<"Golf">>,
   audit |-> [rulesApplied |-> <<>>, issues |-> <<"start date unknown">>]]

ValidDrafts == {DraftTop, DraftMiddle, DraftEnd}

\* syntactically valid JSON that CvDraftSchema rejects: an empty required
\* string, an empty required array, a missing required field
InvalidCandidates ==
  {[DraftTop EXCEPT !.profile = ""],
   [DraftMiddle EXCEPT !.experience = <<>>],
   [k \in CvDraftKeys \ {"audit"} |-> DraftEnd[k]]}

\* a draft with a key the schema does not declare: accepted, key dropped
DraftWithExtraKey ==
  [k \in CvDraftKeys \cup {"notes"} |-> IF k = "notes" THEN "n/a" ELSE DraftTop[k]]

Candidates == ValidDrafts \cup InvalidCandidates \cup {DraftWithExtraKey}

\* what a provider's chain does for one call: it throws an Error (the
\* request fails, or the output parser rejects the text), it throws a value
\* that is no Error, or it yields a parsed JSON value
Responses ==
  {[kind |-> "throwError", message |-> "Request failed"],
   [kind |-> "throwValue"]}
    \cup {[kind |-> "value", value |-> c] : c \in Candidates}

\* opts.providers: absent (the default list), reordered, with a name
\* PROVIDERS does not know, or empty
DefaultProviders == <<"openai", "anthropic", "gemini">>

ProviderLists ==
  {DefaultProviders, <<"gemini", "openai">>, <<"cohere", "anthropic">>, <<>>}

\* which of OPENAI_API_KEY, ANTHROPIC_API_KEY, GOOGLE_API_KEY are set
KeySets == {{"openai", "anthropic", "gemini"}, {"anthropic"}, {"openai", "gemini"}, {}}

\* the zone of the host, in minutes east of UTC
TimeZones == {-300, 0, 330}

\* the most chunks the text splitter returns in this model
MaxChunks == 2

(***************************************************************************)
(* The file parser: src/src/services/parseFile.ts.                         *)
(***************************************************************************)
SUPPORTED_MIME_TYPES ==
  [mime \in {"application/pdf",
             "application/vnd.openxmlformats-officedocument.wordprocessingml.document",
             "application/vnd.ms-excel",
             "application/vnd.openxmlformats-officedocument.spreadsheetml.sheet"} |->
     CASE mime = "application/pdf" -> "pdf"
       [] mime = "application/vnd.openxmlformats-officedocument.wordprocessingml.document" -> "docx"
       [] mime = "application/vnd.ms-excel" -> "xls"
       [] OTHER -> "xlsx"]

FILE_EXTENSIONS ==
  [ext \in {".pdf", ".docx", ".doc", ".xls", ".xlsx"} |-> SubSeq(ext, 2, Len(ext))]

\* s.lastIndexOf(c) for a one-character c, 1-based; 0 when c is not in s
lastIndexOf(s, c) ==
  LET hits == {i \in 1..Len(s) : Char(s, i) = c}
  IN IF hits = {} THEN 0 ELSE CHOOSE i \in hits : \A j \in hits : j <= i

\* path.basename(p) of a POSIX path without a trailing slash
basename(p) == sliceFrom(p, lastIndexOf(p, "/"))

\* path.extname(p): from the last dot of the base name, "" when the base
\* name has no dot or only a leading one
extname(p) ==
  LET base == basename(p)
      dot  == lastIndexOf(base, ".")
  IN IF dot <= 1 \/ base = ".." THEN "" ELSE SubSeq(base, dot, Len(base))

\* getFileType: the MIME type first, then the lower-cased extension; <<>>
\* is null
getFileType(filePath, mime) ==
  LET ext == toLowerCase(extname(filePath))
  IN IF mime \in DOMAIN SUPPORTED_MIME_TYPES THEN <<SUPPORTED_MIME_TYPES[mime]>>
     ELSE IF ext \in DOMAIN FILE_EXTENSIONS THEN <<FILE_EXTENSIONS[ext]>>
     ELSE <<>>

\* isFileSupported(mime, filePath); filePath "" is a call without a path
isFileSupported(mime, filePath) ==
  IF mime \in DOMAIN SUPPORTED_MIME_TYPES THEN TRUE
  ELSE IF filePath # ""
  THEN toLowerCase(extname(filePath)) \in DOMAIN FILE_EXTENSIONS
  ELSE FALSE

\* the first position at or after i of s that holds no white space
\* (Len(s) + 1 when there is none): where a greedy \s* started at i ends
RECURSIVE skipSpaces(_, _)
skipSpaces(s, i) ==
  IF i <= Len(s) /\ IsSpace(Char(s, i)) THEN skipSpaces(s, i + 1) ELSE i

\* s.replace(/\s+/g, ' ') from position i on
RECURSIVE collapseWhitespaceFrom(_, _)
collapseWhitespaceFrom(s, i) ==
  IF i > Len(s) THEN ""
  ELSE IF IsSpace(Char(s, i))
       THEN " " \o collapseWhitespaceFrom(s, skipSpaces(s, i))
       ELSE Char(s, i) \o collapseWhitespaceFrom(s, i + 1)

\* the positions of the newlines in s[from .. to - 1]
newlinesIn(s, from, to) == {k \in from..(to - 1) : Char(s, k) = "\n"}

\* s.replace(/\n\s*\n\s*\n/g, '\n\n') from position i on: a match starts at
\* a newline whose run of white space holds two more newlines, and being
\* greedy it ends at the last newline of that run
RECURSIVE collapseNewlinesFrom(_, _)
collapseNewlinesFrom(s, i) ==
  IF i > Len(s) THEN ""
  ELSE LET later == newlinesIn(s, i + 1, skipSpaces(s, i))
           last  == CHOOSE k \in later : \A j \in later : j <= k
       IN IF Char(s, i) = "\n" /\ Cardinality(later) >= 2
          THEN "\n\n" \o collapseNewlinesFrom(s, last + 1)
          ELSE Char(s, i) \o collapseNewlinesFrom(s, i + 1)

\* the characters of the class [.,;:!?]
IsPunctuation(c) == c \in {".", ",", ";", ":", "!", "?"}

\* s.replace(/\s*([.,;:!?])\s*/g, '$1 ') from position i on
RECURSIVE spacePunctuationFrom(_, _)
spacePunctuationFrom(s, i) ==
  IF i > Len(s) THEN ""
  ELSE LET at == skipSpaces(s, i)
       IN IF at <= Len(s) /\ IsPunctuation(Char(s, at))
          THEN Char(s, at) \o " " \o spacePunctuationFrom(s, skipSpaces(s, at + 1))
          ELSE Char(s, i) \o spacePunctuationFrom(s, i + 1)

\* the bullet glyph U+2022, written with an ASCII character that the texts
\* of this model use for nothing else
BULLET == "*"

\* s.replace(/\s*<bullet>\s*/g, '\n<bullet> ') from position i on
RECURSIVE bulletLinesFrom(_, _)
bulletLinesFrom(s, i) ==
  IF i > Len(s) THEN ""
  ELSE LET at == skipSpaces(s, i)
       IN IF at <= Len(s) /\ Char(s, at) = BULLET
          THEN "\n" \o BULLET \o " " \o bulletLinesFrom(s, skipSpaces(s, at + 1))
          ELSE Char(s, i) \o bulletLinesFrom(s, i + 1)

\* sanitizeText: the five steps in the order of the code
sanitizeText(text) ==
  IF text = "" THEN ""
  ELSE trim(bulletLinesFrom(
              spacePunctuationFrom(
                collapseNewlinesFrom(collapseWhitespaceFrom(trim(text), 1), 1), 1), 1))

\* what fs.access rejects with for a path that is not there
accessError(filePath) ==
  "ENOENT: no such file or directory, access '" \o filePath \o "'"

unsupportedFormatError(filePath, mime) ==
  "Unsupported file format. MIME: " \o mime \o ", Path: " \o filePath

\* the catch block of parseFile: every error is thrown again, prefixed
failedToParse(message) == "Failed to parse file: " \o message

\* a parser of a file type that parseFile has a case for
hasParser(fileType) == fileType \in {"pdf", "docx", "xls", "xlsx"}

\* parseFile(filePath, mime) on a disk where filePath exists or not and
\* where the parser of the file type, if it is called, ends as `parser`:
\* outcome is what the promise settles with, parserCalled whether parsePDF,
\* parseDOCX or parseExcel was entered
parseFile(filePath, mime, exists, parser) ==
  LET fileType == getFileType(filePath, mime)
  IN IF ~exists
     THEN [outcome |-> Threw(failedToParse(accessError(filePath))),
           parserCalled |-> FALSE]
     ELSE IF fileType = <<>>
     THEN [outcome |-> Threw(failedToParse(unsupportedFormatError(filePath, mime))),
           parserCalled |-> FALSE]
     ELSE IF ~hasParser(fileType[1])
     THEN [outcome |->
             Threw(failedToParse("File type " \o fileType[1] \o " is not supported for parsing")),
           parserCalled |-> FALSE]
     ELSE IF parser.status = "threw"
     THEN [outcome |-> Threw(failedToParse(parser.error)), parserCalled |-> TRUE]
     ELSE [outcome |-> Returned([rawText  |-> sanitizeText(parser.value[1]),
                                 fileType |-> fileType[1]]),
           parserCalled |-> TRUE]

(***************************************************************************)
(* The state.                                                              *)
(***************************************************************************)
VARIABLES
  pc,            \* formatCvWithLangChain: "start", "awaiting", "done"
  tz,            \* the zone of the host
  apiKeys,       \* the providers whose API key constant is set
  providers,     \* the ordered provider list of this call
  needsChunking, \* rawText.length > 48000
  nChunks,       \* how many chunks the text splitter makes of rawText
  calls,         \* the processSingleChunk call of each text unit
  chunkValues,   \* the array Promise.all is filling (processWithChunking)
  firstSettled,  \* the index of the call that settled first (0: none yet)
  unanswered,    \* the calls whose pending provider request gets no answer
  result,        \* what formatCvWithLangChain ended with
  cvData,        \* the draft handed to normalizeCvData, as it is now
  normalized,    \* what normalizeCvData(cvData) returned
  renormalized,  \* what normalizeCvData returned for its own result
  npc,           \* how far the normalisation has got
  dateStr,       \* the date string handed to a date rule
  jobTitle,      \* the title handed to a title rule
  details,       \* the personalDetails object handed to the cleanup
  ehsInput,      \* the record handed to validateEHSCompliance
  profileText,   \* the profile text handed to a profile rule
  applied,       \* the rule that has been applied ("none": not yet)
  ruleOutput,    \* what the rule returned
  filePath,      \* the path handed to parseFile
  mime,          \* the MIME type handed to parseFile
  fileExists,    \* whether the path is on the disk
  parserResult,  \* how parsePDF, parseDOCX or parseExcel ends if it is called
  parsed,        \* what parseFile did (<<>>: not called yet)
  text,          \* the text handed to sanitizeText
  sanitized,     \* what sanitizeText returned (<<>>: not called yet)
  uploads,       \* the upload store of the process route: uploadId -> record
  req,           \* the request the process route is handling
  rpc,           \* the handler: "idle", "parsing", "structuring", "responded"
  stages,        \* the pipeline stages the handler has called, in order
  parseResult,   \* the handler's parseResult (<<>>: none yet)
  res,           \* the response sent (<<>>: none yet)
  delRes,        \* the response of the last DELETE /:uploadId (<<>>: none)
  cancelledDuring, \* where the POST handler was when a DELETE succeeded
                 \* (<<>>: no DELETE has succeeded)
  getRes,        \* the response of the last GET /:uploadId/result (<<>>: none)
  env,           \* the API key variables process.env holds now
  available,     \* what getAvailableProviders returned (<<>>: not called yet)
  serverUploads, \* the uploads Map of the Express server: uploadId -> upload
  cvDrafts,      \* the cvDrafts Map of the Express server
  spc,           \* the server's process handler: "idle", "delay1", "delay2",
                 \* "extracting"
  serverReq,     \* req.params.uploadId of the request being handled
  extracted,     \* how extractTextFromFile ended (<<>>: not yet)
  serverRes,     \* the response the server sent (<<>>: none yet)
  dedupKind,     \* which deduplication is applied: "experience", "education"
  dedupInput,    \* the entries handed to the deduplication
  dedupOutput,   \* what it returned (<<>>: not called yet)
  supported,     \* what isFileSupported returned (<<>>: not called yet)
  processingState, \* Home: 'idle', 'processing' or 'completed'
  homeCvData,    \* Home's cvData (<<>>: null)
  originalContent, \* Home's originalContent
  showEditor,    \* Home's showEditor
  isProcessing,  \* FileUpload's isProcessing
  upc,           \* onDrop: "idle", "testing", "processing", "ended"
  droppedFile,   \* the file of the last drop (<<>>: none)
  lastToast,     \* the last toast shown ("": none)
  lastError      \* the message of the error onDrop caught ("": none)

pipelineVars ==
  <<pc, apiKeys, providers, needsChunking, nChunks, calls, chunkValues,
    firstSettled, unanswered, result>>

normalizeVars == <<cvData, normalized, renormalized, npc>>

ruleVars == <<dateStr, jobTitle, details, ehsInput, profileText, applied, ruleOutput>>

fileVars == <<filePath, mime, fileExists, parserResult, parsed, text, sanitized>>

otherRoutes == <<delRes, cancelledDuring, getRes>>

routeVars == <<uploads, req, rpc, stages, parseResult, res, otherRoutes>>

envVars == <<env, available>>

serverVars == <<serverUploads, cvDrafts, spc, serverReq, extracted, serverRes>>

dedupVars == <<dedupKind, dedupInput, dedupOutput>>

supportVars == <<supported>>

homeVars ==
  <<processingState, homeCvData, originalContent, showEditor, isProcessing, upc,
    droppedFile, lastToast, lastError>>

restVars == <<envVars, serverVars, dedupVars, supportVars, homeVars>>

vars == <<tz, pipelineVars, normalizeVars, ruleVars, fileVars, routeVars, restVars>>

\* no call of formatCvWithLangChain
pipelineIdle ==
  /\ pc = "idle" /\ apiKeys = {} /\ providers = <<>> /\ needsChunking = FALSE
  /\ nChunks = 0 /\ calls = <<>> /\ chunkValues = <<>> /\ firstSettled = 0
  /\ unanswered = {} /\ result = Pending

\* no call of normalizeCvData
normalizeIdle ==
  cvData = <<>> /\ normalized = <<>> /\ renormalized = <<>> /\ npc = "idle"

\* no rule applied
rulesIdle ==
  /\ dateStr = "" /\ jobTitle = "" /\ details = <<>> /\ ehsInput = <<>>
  /\ profileText = "" /\ applied = "none" /\ ruleOutput = <<>>

\* no call of parseFile or sanitizeText
fileIdle ==
  /\ filePath = "" /\ mime = "" /\ fileExists = FALSE /\ parserResult = Pending
  /\ parsed = <<>> /\ text = "" /\ sanitized = <<>>

\* no request to the process route
routeIdle ==
  /\ uploads = <<>> /\ req = <<>> /\ rpc = "idle" /\ stages = <<>>
  /\ parseResult = <<>> /\ res = <<>>
  /\ delRes = <<>> /\ cancelledDuring = <<>> /\ getRes = <<>>

\* process.env is not looked at
envIdle == env = {} /\ available = <<>>

\* no request to the Express server
serverIdle ==
  /\ serverUploads = <<>> /\ cvDrafts = <<>> /\ spc = "idle"
  /\ serverReq = "" /\ extracted = <<>> /\ serverRes = <<>>

\* no deduplication on its own
dedupIdle == dedupKind = "" /\ dedupInput = <<>> /\ dedupOutput = <<>>

\* isFileSupported has not been called
supportIdle == supported = <<>>

\* the Home page is not open
homeIdle ==
  /\ processingState = "idle" /\ homeCvData = <<>> /\ originalContent = ""
  /\ showEditor = FALSE /\ isProcessing = FALSE /\ upc = "idle"
  /\ droppedFile = <<>> /\ lastToast = "" /\ lastError = ""

restIdle == envIdle /\ serverIdle /\ dedupIdle /\ supportIdle /\ homeIdle

(***************************************************************************)
(* Spec: one call of formatCvWithLangChain(rawText, opts).                 *)
(***************************************************************************)
Init ==
  /\ pc = "start"
  /\ tz \in TimeZones
  /\ apiKeys \in KeySets
  /\ providers \in ProviderLists
  /\ needsChunking \in BOOLEAN
  /\ nChunks \in (IF needsChunking THEN 0..MaxChunks ELSE {1})
  /\ calls = <<>>
  /\ chunkValues = <<>>
  /\ firstSettled = 0
  /\ unanswered = {}
  /\ result = Pending
  /\ normalizeIdle
  /\ rulesIdle
  /\ fileIdle
  /\ routeIdle
  /\ restIdle

\* formatCvWithLangChain up to its await: the whole text as one unit, or
\* processWithChunking starting processSingleChunk on every chunk
FormatCvWithLangChain ==
  /\ pc = "start"
  /\ pc' = "awaiting"
  /\ calls' = [i \in 1..nChunks |-> startSingleChunk(providers)]
  /\ chunkValues' =
       IF needsChunking
       THEN promiseAllStart([i \in 1..nChunks |-> Unsettled], calls', 1)
       ELSE <<>>
  /\ firstSettled' = IF nChunks > 0 /\ Len(providers) = 0 THEN 1 ELSE 0
  /\ UNCHANGED <<tz, apiKeys, providers, needsChunking, nChunks, unanswered, result>>
  /\ UNCHANGED <<normalizeVars, ruleVars, fileVars, routeVars, restVars>>

\* the provider call a processSingleChunk is waiting for settles
ProviderSettles(i, response) ==
  /\ pc = "awaiting"
  /\ calls[i].state = "running"
  /\ i \notin unanswered
  /\ calls' = [calls EXCEPT ![i] = singleChunkStep(calls[i], providers, apiKeys, response)]
  /\ chunkValues' =
       IF needsChunking /\ calls'[i].state # "running"
       THEN promiseAllSettle(chunkValues, i, chunkValue(calls'[i].outcome))
       ELSE chunkValues
  /\ firstSettled' =
       IF firstSettled = 0 /\ calls'[i].state # "running" THEN i ELSE firstSettled
  /\ UNCHANGED <<pc, tz, apiKeys, providers, needsChunking, nChunks, unanswered, result>>
  /\ UNCHANGED <<normalizeVars, ruleVars, fileVars, routeVars, restVars>>

AllSettled == \A i \in 1..Len(calls) : calls[i].state # "running"

\* return await processSingleChunk(rawText, providers)
ReturnSingleChunk ==
  /\ pc = "awaiting"
  /\ ~needsChunking
  /\ AllSettled
  /\ result' = calls[1].outcome
  /\ pc' = "done"
  /\ UNCHANGED <<tz, apiKeys, providers, needsChunking, nChunks, calls, chunkValues,
               firstSettled, unanswered>>
  /\ UNCHANGED <<normalizeVars, ruleVars, fileVars, routeVars, restVars>>

\* Promise.all resolves and processWithChunking returns mergeChunkResults
MergeChunks ==
  /\ pc = "awaiting"
  /\ needsChunking
  /\ AllSettled
  /\ result' = mergeChunkResults(filterBoolean(chunkValues), tz)
  /\ pc' = "done"
  /\ UNCHANGED <<tz, apiKeys, providers, needsChunking, nChunks, calls, chunkValues,
               firstSettled, unanswered>>
  /\ UNCHANGED <<normalizeVars, ruleVars, fileVars, routeVars, restVars>>

\* any of the calls in flight, any answer
SomeProviderSettles ==
  \E i \in 1..Len(calls) : \E response \in Responses : ProviderSettles(i, response)

\* the request that call i has sent to its provider (chain.invoke, lines
\* 335-338) gets no answer: the promise stays pending, and neither
\* processWithProvider, createLLMInstance nor processSingleChunk bounds the
\* wait.  A provider that is unknown or has no key is never sent a request.
ProviderNeverResponds(i) ==
  /\ pc = "awaiting"
  /\ calls[i].state = "running"
  /\ i \notin unanswered
  /\ providers[calls[i].tried + 1] \in DOMAIN PROVIDERS
  /\ providers[calls[i].tried + 1] \in apiKeys
  /\ unanswered' = unanswered \cup {i}
  /\ UNCHANGED <<pc, tz, apiKeys, providers, needsChunking, nChunks, calls, chunkValues,
               firstSettled, result>>
  /\ UNCHANGED <<normalizeVars, ruleVars, fileVars, routeVars, restVars>>

SomeProviderNeverResponds == \E i \in 1..Len(calls) : ProviderNeverResponds(i)

Next ==
  \/ FormatCvWithLangChain
  \/ SomeProviderSettles
  \/ SomeProviderNeverResponds
  \/ ReturnSingleChunk
  \/ MergeChunks

Spec == Init /\ [][Next]_vars

(***************************************************************************)
(* Properties of the provider fallback and of the chunk merge (Spec).      *)
(***************************************************************************)

\* C1: every CvDraft that formatCvWithLangChain returns satisfies
\* CvDraftSchema, whether it comes from one processSingleChunk call or from
\* mergeChunkResults; and no processSingleChunk call ever returns a value the
\* schema rejects: such a provider result counts as a failure of that call.
C1_ReturnedDraftSatisfiesSchema ==
  /\ \A i \in 1..Len(calls) :
       calls[i].outcome.status = "returned"
         => CvDraftSchemaOK(calls[i].outcome.value[1])
  /\ result.status = "returned" => CvDraftSchemaOK(result.value[1])

\* whether the string s ends with pat
endsWith(s, pat) ==
  Len(pat) <= Len(s) /\ MatchesAt(s, Len(s) - Len(pat) + 1, pat, FALSE)

\* a merged draft is returned although every provider of one chunk failed,
\* the last of them for a schema violation
C1_Witness ==
  /\ pc = "done" /\ needsChunking /\ result.status = "returned"
  /\ \E i, j \in 1..Len(calls) :
       /\ calls[i].state = "threw"
       /\ calls[i].lastLine # <<>> /\ endsWith(calls[i].lastLine[1], "ZodError")
       /\ calls[j].state = "returned"
       /\ Len(calls[j].log) >= 2

\* one step of a processSingleChunk call, as the claim C2 has it
C2Step(before, after) ==
  LET k == Len(before.log) + 1
  IN /\ before.state = "running"
     /\ \A j \in 1..Len(before.log) : ~before.log[j].ok
     /\ k <= Len(providers)
     /\ Len(after.log) = k
     /\ SubSeq(after.log, 1, k - 1) = before.log
     /\ after.log[k].provider = providers[k]
     /\ after.log[k].ok <=> after.state = "returned"
     /\ after.state = "running" <=> (~after.log[k].ok /\ k < Len(providers))
     /\ after.state = "threw" <=> (~after.log[k].ok /\ k = Len(providers))

\* C2: in every processSingleChunk call the providers are called in list
\* order, provider k only when providers 1..k-1 have all failed; after a
\* failure the call goes on to the next provider whenever there is one; the
\* call returns exactly when a provider succeeds, and a call that has
\* returned invokes no further provider.
C2_ProvidersTriedInOrder ==
  [][\A i \in 1..Len(calls) :
       (pc = "awaiting" /\ calls'[i] # calls[i]) => C2Step(calls[i], calls'[i])]_vars

\* a call returned the result of its third provider after two failures
C2_Witness ==
  \E i \in 1..Len(calls) :
    /\ calls[i].state = "returned"
    /\ Len(calls[i].log) = 3
    /\ ~calls[i].log[1].ok /\ ~calls[i].log[2].ok /\ calls[i].log[3].ok

\* the message the last console.warn of a call printed for provider p
lastWarned(call, p) == sliceFrom(call.lastLine[1], Len(p) + Len(" failed: "))

\* C3: a processSingleChunk call throws only when every provider of the list
\* has been called and has failed, and the error it throws carries the
\* message of the failure of the last provider called.
C3_ThrowsAfterAllProvidersLastError ==
  \A i \in 1..Len(calls) :
    calls[i].state = "threw" =>
      /\ calls[i].outcome.status = "threw"
      /\ Len(calls[i].log) = Len(providers)
      /\ \A j \in 1..Len(providers) :
           calls[i].log[j].provider = providers[j] /\ ~calls[i].log[j].ok
      /\ Len(providers) > 0 =>
           calls[i].outcome.error =
             "All AI providers failed. Last error: "
               \o lastWarned(calls[i], providers[Len(providers)])

\* a call threw after three providers failed, the last one for a key that
\* is not configured
C3_Witness ==
  \E i \in 1..Len(calls) :
    /\ calls[i].state = "threw"
    /\ Len(calls[i].log) = 3
    /\ calls[i].outcome.error =
         "All AI providers failed. Last error: Google API key not configured"

\* the drafts of the chunks that were structured, in document order
RECURSIVE structuredInDocumentOrder(_)
structuredInDocumentOrder(cs) ==
  IF Len(cs) = 0 THEN <<>>
  ELSE (IF cs[1].outcome.status = "returned" THEN <<cs[1].outcome.value[1]>> ELSE <<>>)
         \o structuredInDocumentOrder(Tail(cs))

NormProfiles ==
  {"Engineer with ten years of experience.",
   "I am responsible for leading teams.",
   "Principle engineer",
   "I I am am good",
   "I am "}

NormTitles == {"head of engineering", "Lead Engineer"}

\* <<startDate, endDate>> of the experience entry
NormDates ==
  {<<"2020-01", "Present">>,
   <<"January 2020", "on-going">>,
   <<"jan 2020", "Dec 2021">>,
   <<"Mar 2018", "2019-06-15">>}

NormBullets == {"Built APIs", "I am responsible for the Discrete API"}

NormDraft(profile, title, dates, bullet) ==
  [DraftTop EXCEPT
     !.profile = profile,
     !.header.title = title,
     !.experience = <<[ExpAcme EXCEPT !.startDate = dates[1], !.endDate = dates[2],
                                      !.bullets = <<bullet>>]>>]

NormDrafts ==
  {NormDraft(p, t, d, b) : p \in NormProfiles, t \in NormTitles,
                           d \in NormDates, b \in NormBullets}

InitNormalize ==
  /\ tz \in TimeZones
  /\ cvData \in {<<c>> : c \in NormDrafts}
  /\ normalized = <<>>
  /\ renormalized = <<>>
  /\ npc = "start"
  /\ pipelineIdle
  /\ rulesIdle
  /\ fileIdle
  /\ routeIdle
  /\ restIdle

\* normalizeCvData(cvData)
NormalizeCvData ==
  /\ npc = "start"
  /\ normalized' = <<normalizeCvData(cvData[1], tz)>>
  /\ cvData' = <<cvDataAfterNormalize(cvData[1])>>
  /\ npc' = "normalized"
  /\ UNCHANGED <<tz, renormalized, pipelineVars, ruleVars, fileVars, routeVars, restVars>>

\* normalizeCvData(normalized): normalized.header is cvData.header, so the
\* title the call writes shows in all three
NormalizeAgain ==
  /\ npc = "normalized"
  /\ renormalized' = <<normalizeCvData(normalized[1], tz)>>
  /\ normalized' = <<cvDataAfterNormalize(normalized[1])>>
  /\ cvData' = <<cvDataAfterNormalize(cvData[1])>>
  /\ npc' = "renormalized"
  /\ UNCHANGED <<tz, pipelineVars, ruleVars, fileVars, routeVars, restVars>>

NextNormalize ==
  \/ NormalizeCvData
  \/ NormalizeAgain

SpecNormalize == InitNormalize /\ [][NextNormalize]_vars

(***************************************************************************)
(* Properties of normalizeCvData (SpecNormalize).                          *)
(***************************************************************************)

\* C5: when the draft handed to normalizeCvData satisfies CvDraftSchema, so
\* does the draft it returns: no required field is missing, no required
\* string is empty, no required array is shorter than its minimum.
C5_NormalizedDraftSatisfiesSchema ==
  (normalized # <<>> /\ CvDraftSchemaOK(cvData[1])) => CvDraftSchemaOK(normalized[1])

\* C6: normalizeCvData applied to its own result returns a draft equal to
\* that result, field for field.
C6_NormalizeIdempotent ==
  renormalized # <<>> => renormalized[1] = normalized[1]

\* a date string with no digit in it: nothing a month or a year could be
\* read from
HasNoDigit(s) == \A i \in 1..Len(s) : ~IsDigit(Char(s, i))

\* whether some entry of issues names the string
IssueFor(issues, s) == \E k \in 1..Len(issues) : includes(issues[k], s)

\* what C9 asks of one date field: before and after are its values in the
\* draft handed in and in the draft returned
DateKeptAndAudited(before, after, issues) ==
  HasNoDigit(before) => (after = before /\ IssueFor(issues, before))

\* C9: normalizeCvData returns (it raises nothing), and every experience or
\* education start or end date that cannot be parsed is the same string in
\* the draft returned, whose audit.issues has an entry for it.
C9_UnparseableDateKeptAndAudited ==
  normalized # <<>> =>
    LET x == cvData[1]
        y == normalized[1]
    IN /\ \A i \in 1..Len(x.experience) :
            /\ DateKeptAndAudited(x.experience[i].startDate,
                                  y.experience[i].startDate, y.audit.issues)
            /\ DateKeptAndAudited(x.experience[i].endDate,
                                  y.experience[i].endDate, y.audit.issues)
       /\ \A i \in 1..Len(x.education) :
            /\ DateKeptAndAudited(x.education[i].startDate,
                                  y.education[i].startDate, y.audit.issues)
            /\ DateKeptAndAudited(x.education[i].endDate,
                                  y.education[i].endDate, y.audit.issues)

\* C12: no call changes the record it is given: across a call of
\* normalizeCvData the draft handed in keeps every field, the nested header
\* included, and across a call of validateEHSCompliance so does its record.
C12_ArgumentUnchanged ==
  [][cvData' = cvData /\ ehsInput' = ehsInput]_vars

(***************************************************************************)
(* SpecRules: one rule of the TypeScript normaliser or of the EHS          *)
(* formatting service applied to one input.                                *)
(***************************************************************************)
RuleDates ==
  {"2020-01", "January 2020", "jan 2020", "Jan 2020", "September 2021",
   "2019-06-15", "Present"}

RuleTitles ==
  {"head of engineering", "senior software engineer", "VP of Sales",
   "director OF the board"}

\* personalDetails objects: the one of a CvDraft, and three with other keys
RuleDetails ==
  {PersonAnn,
   [name |-> "Ann Lee", dateOfBirth |-> "1 Jan 1990", maritalStatus |-> "Single"],
   [name |-> "Ann Lee", age |-> "34", Religion |-> "None", email |-> "ann@example.com"],
   [jobTitle |-> "head of engineering", startDate |-> "January 2020",
    endDate |-> "Present", birthday |-> "1 Jan"]}

\* a record that passes every check of validateEHSCompliance
EhsCompliant ==
  [cvData |->
     [typography |-> [font |-> "Palatino Linotype"],
      experience |-> <<ExpAcme, ExpInitech>>,
      personalDetails |-> [jobTitle |-> "Head of Engineering", languages |-> <<"English">>]],
   personalFields |-> <<"jobTitle", "languages">>]

\* a CvDraft as the pipeline returns it: it has no typography
EhsDraft ==
  [cvData |-> DraftTop,
   personalFields |-> <<"nationality", "languages", "dob", "maritalStatus">>]

\* a record with another font and neither experience nor personalDetails
EhsFontOnly ==
  [cvData |-> [typography |-> [font |-> "Arial"]], personalFields |-> <<>>]

\* a record with ten issues
EhsTenIssues ==
  [cvData |->
     [experience |-> <<ExpGlobex, ExpHooli, ExpAcme>>,
      personalDetails |->
        [age |-> "34", dob |-> "Jan 1990", religion |-> "None", race |-> "n/a",
         ethnicity |-> "n/a", nationality |-> "Irish", jobTitle |-> "head of engineering"]],
   personalFields |->
     <<"age", "dob", "religion", "race", "ethnicity", "nationality", "jobTitle">>]

\* a record with fourteen issues
EhsManyIssues ==
  [cvData |->
     [experience |-> <<ExpGlobex, ExpHooli>>,
      personalDetails |->
        [age |-> "34", dob |-> "Jan 1990", birthday |-> "1 Jan", children |-> "2",
         dependants |-> "2", marriage |-> "yes", religion |-> "None", race |-> "n/a",
         ethnicity |-> "n/a", nationality |-> "Irish", jobTitle |-> "head of engineering"]],
   personalFields |->
     <<"age", "dob", "birthday", "children", "dependants", "marriage", "religion",
       "race", "ethnicity", "nationality", "jobTitle">>]

\* as EhsCompliant, but only the start dates of the experience are in the
\* form the validator asks for
EhsOtherDates ==
  [EhsCompliant EXCEPT
     !.cvData = [typography |-> EhsCompliant.cvData.typography,
                 experience |-> <<[ExpInitech EXCEPT !.endDate = "2019-12"]>>,
                 education |-> <<EduOxford>>,
                 personalDetails |-> EhsCompliant.cvData.personalDetails]]

EhsInputs ==
  {EhsCompliant, EhsDraft, EhsFontOnly, EhsTenIssues, EhsManyIssues, EhsOtherDates}

RuleProfiles ==
  {"I am responsible for leading teams.",
   "My role involves principle work",
   "Experienced engineer."}

InitRules ==
  /\ tz \in TimeZones
  /\ ehsInput \in EhsInputs
  /\ dateStr \in RuleDates
  /\ jobTitle \in RuleTitles
  /\ details \in RuleDetails
  /\ profileText \in RuleProfiles
  /\ applied = "none"
  /\ ruleOutput = <<>>
  /\ pipelineIdle
  /\ normalizeIdle
  /\ fileIdle
  /\ routeIdle
  /\ restIdle

\* what no rule changes
ruleInputs ==
  <<tz, dateStr, jobTitle, details, ehsInput, profileText, pipelineVars, normalizeVars,
    fileVars, routeVars, restVars>>

NormalizeDate ==
  /\ applied = "none"
  /\ applied' = "normalizeDate"
  /\ ruleOutput' = <<normalizeDate(dateStr, tz)>>
  /\ UNCHANGED ruleInputs

FormatDateToEHS ==
  /\ applied = "none"
  /\ applied' = "formatDateToEHS"
  /\ ruleOutput' = <<formatDateToEHS(dateStr)>>
  /\ UNCHANGED ruleInputs

NormalizeJobTitle ==
  /\ applied = "none"
  /\ applied' = "normalizeJobTitle"
  /\ ruleOutput' = <<normalizeJobTitle(jobTitle)>>
  /\ UNCHANGED ruleInputs

CapitalizeJobTitle ==
  /\ applied = "none"
  /\ applied' = "capitalizeJobTitle"
  /\ ruleOutput' = <<capitalizeJobTitle(jobTitle)>>
  /\ UNCHANGED ruleInputs

CleanupPersonalDetails ==
  /\ applied = "none"
  /\ applied' = "cleanupPersonalDetails"
  /\ ruleOutput' = <<cleanupPersonalDetails(details)>>
  /\ UNCHANGED ruleInputs

ValidateEHSCompliance ==
  /\ applied = "none"
  /\ applied' = "validateEHSCompliance"
  /\ ruleOutput' = <<validateEHSCompliance(ehsInput.cvData, ehsInput.personalFields)>>
  /\ UNCHANGED ruleInputs

CleanupProfile ==
  /\ applied = "none"
  /\ applied' = "cleanupProfile"
  /\ ruleOutput' = <<cleanupProfile(profileText)>>
  /\ UNCHANGED ruleInputs

NormalizeProfileText ==
  /\ applied = "none"
  /\ applied' = "normalizeProfileText"
  /\ ruleOutput' = <<normalizeProfileText(profileText)>>
  /\ UNCHANGED ruleInputs

NextRules ==
  \/ CleanupProfile
  \/ NormalizeProfileText
  \/ ValidateEHSCompliance
  \/ NormalizeDate
  \/ FormatDateToEHS
  \/ NormalizeJobTitle
  \/ CapitalizeJobTitle
  \/ CleanupPersonalDetails

SpecRules == InitRules /\ [][NextRules]_vars

(***************************************************************************)
(* Properties of the rules (SpecRules).                                    *)
(***************************************************************************)

\* C7: the object cleanupPersonalDetails returns carries no key of the
\* denylist; in particular neither maritalStatus nor dateOfBirth.
C7_DenylistKeysRemoved ==
  applied = "cleanupPersonalDetails" =>
    /\ \A key \in DOMAIN ruleOutput[1] : ~arrayIncludes(inappropriateFields, key)
    /\ "maritalStatus" \notin DOMAIN ruleOutput[1]
    /\ "dateOfBirth" \notin DOMAIN ruleOutput[1]

\* C8: normalizeDate and formatDateToEHS both return exactly "Jan 2020" for
\* each of "2020-01", "January 2020" and "jan 2020".
C8_RecognizableDatesBecomeJan2020 ==
  (/\ applied \in {"normalizeDate", "formatDateToEHS"}
   /\ dateStr \in {"2020-01", "January 2020", "jan 2020"})
    => ruleOutput[1] = "Jan 2020"

\* the words C10 keeps in lower case after the first word
LowercaseWords == {"of", "in", "at", "on", "by", "for", "to", "with", "a", "an", "the"}

\* the capitalization C10 describes
TitleCase(t) ==
  LET words == split(t, " ")
  IN join([i \in 1..Len(words) |->
             IF i > 1 /\ toLowerCase(words[i]) \in LowercaseWords
             THEN toLowerCase(words[i])
             ELSE toUpperCase(charAt0(words[i])) \o toLowerCase(sliceFrom(words[i], 1))],
          " ")

\* C10: title capitalization, by normalizeJobTitle and by capitalizeJobTitle
\* alike, gives every word a capital first letter and lower case after it,
\* except that of, in, at, on, by, for, to, with, a, an, the are all lower
\* case when they are not the first word: "head of engineering" becomes
\* "Head of Engineering".
C10_TitleCapitalization ==
  applied \in {"normalizeJobTitle", "capitalizeJobTitle"} =>
    ruleOutput[1] = TitleCase(jobTitle)

\* C11: validateEHSCompliance reports score = max(0, 100 - 10 * the number
\* of issues it lists), a number within 0..100, and compliant exactly when
\* it lists no issue, whatever the score.
C11_ScoreAndCompliance ==
  applied = "validateEHSCompliance" =>
    LET report == ruleOutput[1]
        n      == Len(report.issues)
    IN /\ report.score \in 0..100
       /\ (n <= 10 => report.score = 100 - 10 * n)
       /\ (n >= 10 => report.score = 0)
       /\ report.compliant <=> (n = 0)

\* a record with more than ten issues has been checked: its score is 0 and
\* it is not compliant
C11_Witness ==
  /\ applied = "validateEHSCompliance"
  /\ Len(ruleOutput[1].issues) > 10
  /\ ruleOutput[1].score = 0
  /\ ~ruleOutput[1].compliant

(***************************************************************************)
(* SpecProcess: one POST /:uploadId request to the process route           *)
(* (src/src/routes/process.ts lines 35-125).  The upload store of the      *)
(* file is a map the file itself never fills; the records other routes     *)
(* put there are an input here.                                            *)
(***************************************************************************)
UploadRecords ==
  {[userId |-> "alice", filePath |-> p, mimeType |-> m, status |-> "uploaded",
    progress |-> 0, message |-> ""] :
     p \in {"uploads/cv.pdf", "uploads/cv.txt"},
     m \in {<<>>, <<"application/pdf">>, <<"text/plain">>}}

\* the store: empty (<<>>), or holding one record
Stores == {<<>>} \cup {[id \in {"u1"} |-> r] : r \in UploadRecords}

\* req.params.uploadId and req.userId (<<>>: no authenticated user)
Requests == {[uploadId |-> "u1", userId |-> u] : u \in {<<>>, <<"alice">>, <<"bob">>}}

\* how the parser of the file ends if it is called
ParserResults == {Returned("  Ann  Lee ,engineer  "), Threw("PDF parsing failed: bad XRef")}

\* what formatCvWithLangChain(rawText) settles with
FormatResults ==
  {Returned(d) : d \in ValidDrafts}
    \cup {Threw(allFailedMessage(<<"Request failed">>))}

\* uploadRecord.mimeType || 'application/pdf'
mimeOrDefault(record) ==
  IF record.mimeType = <<>> \/ record.mimeType = <<"">>
  THEN "application/pdf"
  ELSE record.mimeType[1]

\* res.status(status).json(createErrorResponse(code))
errorResponse(status, code) == <<[status |-> status, success |-> FALSE, error |-> code]>>

\* the catch block of the handler (lines 108-124): the record, if the store
\* has it, is marked failed with the error's message
recordFailed(store, uploadId, message) ==
  IF uploadId # "" /\ uploadId \in DOMAIN store
  THEN [store EXCEPT ![uploadId].status = "failed",
                     ![uploadId].progress = 0,
                     ![uploadId].message = message]
  ELSE store

InitProcess ==
  /\ tz \in TimeZones
  /\ uploads \in Stores
  /\ req \in Requests
  /\ rpc = "idle"
  /\ stages = <<>>
  /\ parseResult = <<>>
  /\ res = <<>>
  /\ delRes = <<>>
  /\ cancelledDuring = <<>>
  /\ getRes = <<>>
  /\ fileExists \in BOOLEAN
  /\ parserResult \in ParserResults
  /\ filePath = "" /\ mime = "" /\ parsed = <<>> /\ text = "" /\ sanitized = <<>>
  /\ pipelineIdle
  /\ normalizeIdle
  /\ rulesIdle
  /\ restIdle

processOthers ==
  <<tz, req, pipelineVars, normalizeVars, ruleVars, fileVars, restVars>>

\* the handler up to its first await (lines 36-72): the four guards, then
\* the record is marked as processing and parseFile is called
PostProcess ==
  /\ rpc = "idle"
  /\ IF req.uploadId = ""
     THEN res' = errorResponse(400, "MISSING_UPLOAD_ID") /\ rpc' = "responded"
          /\ UNCHANGED uploads
     ELSE IF req.userId = <<>>
     THEN res' = errorResponse(401, "UNAUTHORIZED") /\ rpc' = "responded"
          /\ UNCHANGED uploads
     ELSE IF req.uploadId \notin DOMAIN uploads
     THEN res' = errorResponse(404, "UPLOAD_NOT_FOUND") /\ rpc' = "responded"
          /\ UNCHANGED uploads
     ELSE IF uploads[req.uploadId].userId # req.userId[1]
     THEN res' = errorResponse(403, "ACCESS_DENIED") /\ rpc' = "responded"
          /\ UNCHANGED uploads
     ELSE /\ uploads' = [uploads EXCEPT ![req.uploadId].status = "processing",
                                        ![req.uploadId].progress = 30,
                                        ![req.uploadId].message = "Parsing file content..."]
          /\ rpc' = "parsing"
          /\ UNCHANGED res
  /\ UNCHANGED <<stages, parseResult, otherRoutes, processOthers>>

\* parseFile settles (lines 72-78): on success formatCvWithLangChain is
\* called with the raw text, on failure the catch block answers 500
ParseFileSettles ==
  /\ rpc = "parsing"
  /\ LET record == uploads[req.uploadId]
         call   == parseFile(record.filePath, mimeOrDefault(record), fileExists,
                             parserResult)
     IN /\ stages' = Append(stages, "extract")
        /\ IF call.outcome.status = "threw"
           THEN /\ uploads' = recordFailed(uploads, req.uploadId, call.outcome.error)
                /\ res' = errorResponse(500, "PROCESSING_FAILED")
                /\ rpc' = "responded"
                /\ UNCHANGED parseResult
           ELSE /\ parseResult' = call.outcome.value
                /\ uploads' =
                     [uploads EXCEPT
                        ![req.uploadId].progress = 60,
                        ![req.uploadId].message =
                           "File parsed successfully, processing with AI..."]
                /\ rpc' = "structuring"
                /\ UNCHANGED res
  /\ UNCHANGED <<otherRoutes, processOthers>>

\* formatCvWithLangChain settles (lines 78-106): CvDraftSchema.parse, the
\* record is marked completed and the draft is sent; a rejection or a schema
\* error goes to the catch block
FormatCvSettles(outcome) ==
  /\ rpc = "structuring"
  /\ rpc' = "responded"
  /\ IF outcome.status = "threw"
     THEN /\ stages' = Append(stages, "structure")
          /\ uploads' = recordFailed(uploads, req.uploadId, outcome.error)
          /\ res' = errorResponse(500, "PROCESSING_FAILED")
     ELSE IF ~CvDraftSchemaOK(outcome.value[1])
     THEN /\ stages' = stages \o <<"structure", "validate">>
          /\ uploads' = recordFailed(uploads, req.uploadId, "ZodError")
          /\ res' = errorResponse(500, "PROCESSING_FAILED")
     ELSE /\ stages' = stages \o <<"structure", "validate">>
          /\ uploads' = [uploads EXCEPT
                           ![req.uploadId].progress = 100,
                           ![req.uploadId].status = "completed",
                           ![req.uploadId].message = "Processing completed successfully"]
          /\ res' = <<[status          |-> 200,
                       success         |-> TRUE,
                       uploadId        |-> req.uploadId,
                       progress        |-> 100,
                       cvDraft         |-> CvDraftSchemaParse(outcome.value[1]),
                       originalContent |-> parseResult[1].rawText]>>
  /\ UNCHANGED <<parseResult, otherRoutes, processOthers>>

\* the users a DELETE request can come from (<<>>: not authenticated)
Users == {<<>>, <<"alice">>, <<"bob">>}

\* DELETE /:uploadId (lines 181-224), for the upload the POST names: the
\* handler has no await, so it runs between two steps of the POST handler
DeleteProcess(userId) ==
  /\ IF req.uploadId = ""
     THEN /\ delRes' = errorResponse(400, "MISSING_UPLOAD_ID")
          /\ UNCHANGED <<uploads, cancelledDuring>>
     ELSE IF userId = <<>>
     THEN /\ delRes' = errorResponse(401, "UNAUTHORIZED")
          /\ UNCHANGED <<uploads, cancelledDuring>>
     ELSE IF req.uploadId \notin DOMAIN uploads
     THEN /\ delRes' = errorResponse(404, "UPLOAD_NOT_FOUND")
          /\ UNCHANGED <<uploads, cancelledDuring>>
     ELSE IF uploads[req.uploadId].userId # userId[1]
     THEN /\ delRes' = errorResponse(403, "ACCESS_DENIED")
          /\ UNCHANGED <<uploads, cancelledDuring>>
     ELSE IF uploads[req.uploadId].status \in {"completed", "failed"}
     THEN /\ delRes' = errorResponse(400, "CANCELLATION_NOT_ALLOWED")
          /\ UNCHANGED <<uploads, cancelledDuring>>
     ELSE /\ uploads' =
               [uploads EXCEPT
                  ![req.uploadId].status = "failed",
                  ![req.uploadId].progress = 0,
                  ![req.uploadId].message = "Processing cancelled by user"]
          /\ delRes' = <<[status |-> 200, success |-> TRUE, cancelled |-> TRUE]>>
          /\ cancelledDuring' = <<rpc>>
  /\ UNCHANGED <<rpc, stages, parseResult, res, getRes, processOthers>>

\* uploadRecord.<field>: <<>> is undefined
fieldOf(record, field) ==
  IF field \in DOMAIN record THEN <<record[field]>> ELSE <<>>

\* GET /:uploadId/result (lines 128-178), for the upload the POST names
GetResult ==
  /\ IF req.uploadId = ""
     THEN getRes' = errorResponse(400, "MISSING_UPLOAD_ID")
     ELSE IF req.uploadId \notin DOMAIN uploads
     THEN getRes' = errorResponse(404, "UPLOAD_NOT_FOUND")
     ELSE IF uploads[req.uploadId].status # "completed"
     THEN getRes' = errorResponse(400, "PROCESSING_INCOMPLETE")
     ELSE LET uploadRecord == uploads[req.uploadId]
          IN getRes' =
               <<[status          |-> 200,
                  success         |-> TRUE,
                  uploadId        |-> req.uploadId,
                  progress        |-> uploadRecord.progress,
                  cvDraft         |-> fieldOf(uploadRecord, "cvDraft"),
                  originalContent |-> fieldOf(uploadRecord, "originalContent")]>>
  /\ UNCHANGED <<uploads, rpc, stages, parseResult, res, delRes, cancelledDuring,
                 processOthers>>

SomeDeleteProcess == \E userId \in Users : DeleteProcess(userId)

SomeFormatCvSettles == \E outcome \in FormatResults : FormatCvSettles(outcome)

NextProcess ==
  \/ PostProcess
  \/ ParseFileSettles
  \/ SomeFormatCvSettles
  \/ SomeDeleteProcess
  \/ GetResult

SpecProcess == InitProcess /\ [][NextProcess]_vars

postInFlight == rpc \in {"parsing", "structuring"}

mergeInputs ==
  IF pc = "done" /\ needsChunking /\ Len(structuredInDocumentOrder(calls)) >= 2
  THEN structuredInDocumentOrder(calls)
  ELSE <<>>

experienceOfChunks == flatten([i \in 1..Len(mergeInputs) |-> mergeInputs[i].experience])

educationOfChunks == flatten([i \in 1..Len(mergeInputs) |-> mergeInputs[i].education])

experienceTriple(e) == <<e.company, e.role, e.startDate>>

educationTriple(e) == <<e.institution, e.degree, e.startDate>>

\* the first position of `all` that holds an entry with the triple t
firstWith(all, triples, t) ==
  CHOOSE k \in 1..Len(all) :
    triples[k] = t /\ \A j \in 1..(k - 1) : triples[j] # t

\* merged holds no triple twice, and holds for each of its triples the
\* first entry of all with that triple
firstOfEachTriple(merged, mergedTriples, all, triples) ==
  /\ \A i, j \in 1..Len(merged) : i # j => mergedTriples[i] # mergedTriples[j]
  /\ \A i \in 1..Len(merged) :
       /\ \E k \in 1..Len(all) : triples[k] = mergedTriples[i]
       /\ merged[i] = all[firstWith(all, triples, mergedTriples[i])]

hasStartDate(e) == DateParse(e.startDate).valid

startTime(e) == getTime(DateParse(e.startDate), tz)

\* the first position of all that holds the entry e
firstSeenAt(all, e) ==
  CHOOSE k \in 1..Len(all) : all[k] = e /\ \A j \in 1..(k - 1) : all[j] # e

\* of two entries of merged that have start dates, the one listed first does
\* not start earlier, and when both start at the same instant it is the one
\* seen first in all
reverseChronological(merged, all) ==
  \A i, j \in 1..Len(merged) :
    (i < j /\ hasStartDate(merged[i]) /\ hasStartDate(merged[j])) =>
      /\ startTime(merged[i]) >= startTime(merged[j])
      /\ startTime(merged[i]) = startTime(merged[j])
           => firstSeenAt(all, merged[i]) < firstSeenAt(all, merged[j])

\* C15: the experience and education lists of a merged draft are in
\* reverse-chronological order of start date: an entry listed before
\* another does not start earlier than it, and entries with the same start
\* date keep their first-seen order.
C15_ReverseChronological ==
  Len(mergeInputs) >= 2 =>
    /\ reverseChronological(result.value[1].experience, experienceOfChunks)
    /\ reverseChronological(result.value[1].education, educationOfChunks)

skillsOfChunks == flatten([i \in 1..Len(mergeInputs) |-> mergeInputs[i].skills])

interestsOfChunks == flatten([i \in 1..Len(mergeInputs) |-> mergeInputs[i].interests])

\* merged holds every string of all, holds no two strings that are equal
\* when case is ignored, and holds each in the casing all has it in first
unionIgnoringCase(merged, all) ==
  /\ \A k \in 1..Len(all) :
       \E i \in 1..Len(merged) : toLowerCase(merged[i]) = toLowerCase(all[k])
  /\ \A i, j \in 1..Len(merged) :
       i # j => toLowerCase(merged[i]) # toLowerCase(merged[j])
  /\ \A i \in 1..Len(merged) :
       \E k \in 1..Len(all) :
         /\ all[k] = merged[i]
         /\ \A j \in 1..(k - 1) : toLowerCase(all[j]) # toLowerCase(merged[i])

\* C16: the skills and the interests of a merged draft are the union over
\* the chunks with duplicates removed ignoring case: no two entries are
\* equal when case is ignored, and each entry has the casing of its first
\* occurrence in chunk document order.
C16_SkillsUnionIgnoringCase ==
  Len(mergeInputs) >= 2 =>
    /\ unionIgnoringCase(result.value[1].skills, skillsOfChunks)
    /\ unionIgnoringCase(result.value[1].interests, interestsOfChunks)

(***************************************************************************)
(* Properties of processWithChunking as a whole (Spec).                    *)
(***************************************************************************)
\* the elements of a sequence
elementsOf(xs) == {xs[i] : i \in 1..Len(xs)}

\* the elements of the lists that field names in the given drafts
elementsOfAll(drafts, field) ==
  UNION {elementsOf(drafts[k][field]) : k \in 1..Len(drafts)}

\* C17: processWithChunking fails if and only if every chunk failed on every
\* provider, and then with the error of a merge of no inputs; when at least
\* one chunk was structured it returns a draft whose lists hold the entries
\* of exactly the structured chunks.
C17_FailsIffEveryChunkFailed ==
  (pc = "done" /\ needsChunking) =>
    LET structured == structuredInDocumentOrder(calls)
    IN /\ result.status \in {"returned", "threw"}
       /\ result.status = "threw" <=>
            \A i \in 1..Len(calls) :
              calls[i].outcome.status = "threw" /\ calls[i].tried = Len(providers)
       /\ result.status = "threw" =>
            result.error = "No chunks were processed successfully"
       /\ result.status = "returned" =>
            /\ {experienceTriple(e) : e \in elementsOf(result.value[1].experience)}
                 = {experienceTriple(e) : e \in elementsOfAll(structured, "experience")}
            /\ {educationTriple(e) : e \in elementsOf(result.value[1].education)}
                 = {educationTriple(e) : e \in elementsOfAll(structured, "education")}
            /\ elementsOf(result.value[1].skills) = elementsOfAll(structured, "skills")
            /\ elementsOf(result.value[1].interests)
                 = elementsOfAll(structured, "interests")

\* of two chunks one failed on every provider, two of them at least, the
\* other was structured, and its draft has been returned
C17_Witness ==
  /\ pc = "done" /\ needsChunking /\ result.status = "returned"
  /\ \E i, j \in 1..Len(calls) :
       /\ calls[i].outcome.status = "threw"
       /\ calls[i].tried >= 2
       /\ calls[j].outcome.status = "returned"
       /\ result.value[1].skills = calls[j].outcome.value[1].skills

(***************************************************************************)
(* SpecParseFile: one call of parseFile(filePath, mime) and one call of    *)
(* sanitizeText(text), on inputs drawn from small sets.                    *)
(***************************************************************************)
FilePaths ==
  {"/nonexistent/file.txt", "uploads/cv.pdf", "uploads/cv.DOCX", "uploads/cv.doc",
   "uploads/notes"}

MimeTypes == {"text/plain", "application/pdf", "application/vnd.ms-excel"}

Texts ==
  {"  Multiple    spaces\n\n\n\nand\n\n\n\nnewlines  ",
   "Profile\n\nSkills :  * Go  *SQL",
   "one line",
   ""}

InitParseFile ==
  /\ tz \in TimeZones
  /\ filePath \in FilePaths
  /\ mime \in MimeTypes
  /\ fileExists \in BOOLEAN
  /\ parserResult \in ParserResults
  /\ parsed = <<>>
  /\ text \in Texts
  /\ sanitized = <<>>
  /\ pipelineIdle
  /\ normalizeIdle
  /\ rulesIdle
  /\ routeIdle
  /\ restIdle

fileInputs ==
  <<tz, filePath, mime, fileExists, parserResult, text, pipelineVars, normalizeVars,
    ruleVars, routeVars, restVars>>

\* await parseFile(filePath, mime)
ParseFile ==
  /\ parsed = <<>>
  /\ parsed' = <<parseFile(filePath, mime, fileExists, parserResult)>>
  /\ UNCHANGED <<sanitized, fileInputs>>

\* sanitizeText(text)
SanitizeText ==
  /\ sanitized = <<>>
  /\ sanitized' = <<sanitizeText(text)>>
  /\ UNCHANGED <<parsed, fileInputs>>

\* isFileSupported(mime, filePath)
IsFileSupported ==
  /\ supported = <<>>
  /\ supported' = <<isFileSupported(mime, filePath)>>
  /\ UNCHANGED <<tz, fileVars, pipelineVars, normalizeVars, ruleVars, routeVars,
                 envVars, serverVars, dedupVars, homeVars>>

NextParseFile ==
  \/ ParseFile
  \/ SanitizeText
  \/ IsFileSupported

SpecParseFile == InitParseFile /\ [][NextParseFile]_vars

\* neither the MIME type nor the extension of the path is a recognised one
unrecognized(path, mimeType) ==
  /\ mimeType \notin DOMAIN SUPPORTED_MIME_TYPES
  /\ toLowerCase(extname(path)) \notin DOMAIN FILE_EXTENSIONS

\* C18: parseFile called with a MIME type and an extension that are both
\* unrecognised fails with an 'Unsupported file format' error and calls no
\* parser, whether or not the path exists on the disk.
C18_UnsupportedFormatFailsFirst ==
  (parsed # <<>> /\ unrecognized(filePath, mime)) =>
    /\ parsed[1].outcome.status = "threw"
    /\ includes(parsed[1].outcome.error, "Unsupported file format")
    /\ ~parsed[1].parserCalled

\* C19: sanitizeText collapses runs of spaces to one space and three or more
\* newlines to one blank line, so that paragraph breaks survive: the text
\* '  Multiple    spaces\n\n\n\nand\n\n\n\nnewlines  ' becomes
\* 'Multiple spaces\n\nand\n\nnewlines'.
C19_ParagraphBreaksSurvive ==
  sanitized # <<>> =>
    /\ text = "  Multiple    spaces\n\n\n\nand\n\n\n\nnewlines  "
         => sanitized[1] = "Multiple spaces\n\nand\n\nnewlines"
    /\ includes(trim(text), "\n\n") => includes(sanitized[1], "\n\n")
    /\ ~includes(sanitized[1], "  ")

(***************************************************************************)
(* Termination of formatCvWithLangChain (Spec).                            *)
(***************************************************************************)
\* C20: every provider call is bounded by a timeout, so a provider that
\* never responds counts as a failed attempt and the call goes on to the
\* next provider or ends with the all-providers-failed error: as long as
\* formatCvWithLangChain has not ended, a further step of it is possible.
C20_UnansweredCallTimesOut ==
  pc \in {"start", "awaiting"} => ENABLED Next

(***************************************************************************)
(* Properties of the profile rules (SpecRules).                            *)
(***************************************************************************)
\* C21: cleanupProfile strips the self-referential phrase and leaves a
\* capitalised, closed sentence: "I am responsible for leading teams."
\* becomes "Responsible for leading teams.", and whatever cleanupProfile
\* returns for a profile starts with no lower-case letter.
C21_RedundantPhraseRemoved ==
  applied = "cleanupProfile" =>
    /\ profileText = "I am responsible for leading teams."
         => ruleOutput[1] = "Responsible for leading teams."
    /\ ~IsLower(charAt0(ruleOutput[1]))

\* "Mon YYYY": a three-letter month, a space, a four-digit year
monYYYYForm(s) ==
  /\ Len(s) = 8
  /\ \E k \in 1..Len(months) : SubSeq(s, 1, 3) = months[k]
  /\ Char(s, 4) = " "
  /\ AllDigits(SubSeq(s, 5, 8))

\* the entries of the list that field names in cvData (none when absent)
entriesOf(data, field) == IF field \in DOMAIN data THEN data[field] ELSE <<>>

\* C22: a record validateEHSCompliance reports as compliant has every
\* startDate and endDate of its experience and education in "Mon YYYY" form.
C22_CompliantDatesAreMonYYYY ==
  (applied = "validateEHSCompliance" /\ ruleOutput[1].compliant) =>
    \A field \in {"experience", "education"} :
      \A i \in 1..Len(entriesOf(ehsInput.cvData, field)) :
        /\ monYYYYForm(entriesOf(ehsInput.cvData, field)[i].startDate)
        /\ monYYYYForm(entriesOf(ehsInput.cvData, field)[i].endDate)

(***************************************************************************)
(* SpecEnv: the module aiProcessor has been loaded, process.env changes,   *)
(* and getAvailableProviders is called.  apiKeys are the constants         *)
(* OPENAI_API_KEY, ANTHROPIC_API_KEY and GOOGLE_API_KEY of lines 82-84,    *)
(* named by their provider, and env the variables process.env holds.       *)
(***************************************************************************)
ProviderNames == {"openai", "anthropic", "gemini"}

\* the module is loaded: each constant is what process.env held then
InitEnv ==
  /\ tz = 0
  /\ env \in SUBSET ProviderNames
  /\ apiKeys = env
  /\ available = <<>>
  /\ pc = "idle" /\ providers = <<>> /\ needsChunking = FALSE
  /\ nChunks = 0 /\ calls = <<>> /\ chunkValues = <<>> /\ firstSettled = 0
  /\ unanswered = {} /\ result = Pending
  /\ normalizeIdle
  /\ rulesIdle
  /\ fileIdle
  /\ routeIdle
  /\ serverIdle
  /\ dedupIdle
  /\ supportIdle
  /\ homeIdle

envOthers ==
  <<tz, pipelineVars, normalizeVars, ruleVars, fileVars, routeVars, serverVars,
    dedupVars,
    supportVars,
    homeVars>>

\* delete process.env.<KEY> (lines 58-60)
DeleteEnvKey(k) ==
  /\ k \in env
  /\ env' = env \ {k}
  /\ UNCHANGED <<available, envOthers>>

\* process.env.<KEY> = '...'
SetEnvKey(k) ==
  /\ k \notin env
  /\ env' = env \cup {k}
  /\ UNCHANGED <<available, envOthers>>

\* getAvailableProviders()
GetAvailableProviders ==
  /\ available' = <<getAvailableProviders(apiKeys)>>
  /\ UNCHANGED <<env, envOthers>>

SomeDeleteEnvKey == \E k \in ProviderNames : DeleteEnvKey(k)

SomeSetEnvKey == \E k \in ProviderNames : SetEnvKey(k)

NextEnv ==
  \/ SomeDeleteEnvKey
  \/ SomeSetEnvKey
  \/ GetAvailableProviders

SpecEnv == InitEnv /\ [][NextEnv]_vars

\* C23: getAvailableProviders reports the keys process.env holds when it is
\* called: what a call returns is the list of the providers whose key is in
\* the environment then, the empty list when all three have been removed.
C23_AvailabilityFollowsEnvironment ==
  [][GetAvailableProviders => available' = <<getAvailableProviders(env)>>]_vars

(***************************************************************************)
(* Concurrency of processWithChunking (Spec).                              *)
(***************************************************************************)
\* the calls of processSingleChunk that are waiting for a provider's answer
\* (a provider that is unknown or has no key is never sent a request)
oracleCallsInFlight ==
  {i \in 1..Len(calls) :
     /\ pc = "awaiting"
     /\ calls[i].state = "running"
     /\ providers[calls[i].tried + 1] \in DOMAIN PROVIDERS
     /\ providers[calls[i].tried + 1] \in apiKeys}

\* C24: during processWithChunking the number of oracle calls in flight at
\* one time stays within a bound that does not grow with the number of
\* chunks: it is less than the largest number of chunks a text is split
\* into.
C24_ConcurrencyBounded ==
  needsChunking => Cardinality(oracleCallsInFlight) < MaxChunks

(***************************************************************************)
(* SpecServer: the Express server's POST /api/v1/process/:uploadId.  The   *)
(* handler is followed from one await to the next; when it has responded   *)
(* the server takes the next request.                                      *)
(***************************************************************************)
ServerUploadIds == {"u1", "u2"}

\* the ids a request can name: the stored ones and one that is not stored
ServerRequestIds == ServerUploadIds \cup {"u9"}

ServerMimeTypes ==
  {"application/pdf",
   "application/vnd.openxmlformats-officedocument.wordprocessingml.document",
   "application/vnd.ms-excel",
   "text/plain"}

ServerTexts == {"React developer", "AI engineer"}

\* what the upload endpoint stores for a file (status 'uploaded')
uploadInfo(mimetype) ==
  [mimetype |-> mimetype, status |-> "uploaded", progress |-> 0, error |-> ""]

\* the branch of extractTextFromFile that the mimetype selects
hasExtractor(mimetype) ==
  \/ mimetype = "application/pdf"
  \/ mimetype
       = "application/vnd.openxmlformats-officedocument.wordprocessingml.document"
  \/ includes(mimetype, "excel")
  \/ includes(mimetype, "spreadsheet")

\* the ways extractTextFromFile(filePath, mimetype) can end: the library
\* returns the text of the file or fails on it; any other type is refused
extractTextFromFile(mimetype) ==
  IF hasExtractor(mimetype)
  THEN {Returned(t) : t \in ServerTexts} \cup {Threw("Failed to read file")}
  ELSE {Threw("Unsupported file type")}

\* EHSFormattingService.applyEHSFormatting(cvData): formattedCV is declared
\* with const (line 61) and the cleanup calls of lines 67-72 fill its
\* fields; line 74 then assigns to formattedCV itself, which throws a
\* TypeError in every run, before anything is returned
applyEHSFormatting(data) ==
  Threw("Assignment to constant variable.")

\* applyEHSFormattingRules(extractedText): builds cvData from the text and
\* hands it to applyEHSFormatting; the compliance check and the return come
\* after that call
applyEHSFormattingRules(extractedText) ==
  LET data ==
        [interests |->
           IF includes(toLowerCase(extractedText), "ai")
           THEN <<"AI & Machine Learning">> ELSE <<>>]
  IN applyEHSFormatting(data)

InitServer ==
  /\ tz = 0
  /\ pipelineIdle
  /\ normalizeIdle
  /\ rulesIdle
  /\ fileIdle
  /\ routeIdle
  /\ envIdle
  /\ serverUploads \in [ServerUploadIds -> {uploadInfo(t) : t \in ServerMimeTypes}]
  /\ cvDrafts = <<>>
  /\ spc = "idle"
  /\ serverReq = ""
  /\ extracted = <<>>
  /\ serverRes = <<>>
  /\ dedupIdle
  /\ supportIdle
  /\ homeIdle

serverOthers ==
  <<tz, pipelineVars, normalizeVars, ruleVars, fileVars, routeVars, envVars,
    dedupVars,
    supportVars,
    homeVars>>

\* the catch block of the handler (lines 436-449)
serverCatch(message) ==
  /\ serverUploads' =
       [serverUploads EXCEPT ![serverReq].status = "failed",
                             ![serverReq].error = message]
  /\ serverRes' = <<[status |-> 500, success |-> FALSE, error |-> message]>>
  /\ spc' = "idle"

\* the request arrives: lines 380-397, up to the first await
PostServerProcess(uploadId) ==
  /\ spc = "idle"
  /\ serverReq' = uploadId
  /\ extracted' = <<>>
  /\ IF uploadId \notin DOMAIN serverUploads
     THEN /\ serverRes' =
               <<[status |-> 404, success |-> FALSE, error |-> "Upload not found"]>>
          /\ spc' = "idle"
          /\ UNCHANGED serverUploads
     ELSE /\ serverUploads' =
               [serverUploads EXCEPT ![uploadId].status = "processing",
                                     ![uploadId].progress = 25]
          /\ serverRes' = <<>>
          /\ spc' = "delay1"
  /\ UNCHANGED <<cvDrafts, serverOthers>>

\* the first timer fires: lines 399-405
FirstDelayElapses ==
  /\ spc = "delay1"
  /\ serverUploads' =
       [serverUploads EXCEPT ![serverReq].status = "ai_processing",
                             ![serverReq].progress = 75]
  /\ spc' = "delay2"
  /\ UNCHANGED <<cvDrafts, serverReq, extracted, serverRes, serverOthers>>

\* the second timer fires and extractTextFromFile is called: lines 407-409
SecondDelayElapses ==
  /\ spc = "delay2"
  /\ spc' = "extracting"
  /\ UNCHANGED <<serverUploads, cvDrafts, serverReq, extracted, serverRes,
                 serverOthers>>

\* extractTextFromFile settles and the handler runs to its end: lines
\* 409-435, or the catch block when something threw
ExtractTextSettles(outcome) ==
  /\ spc = "extracting"
  /\ outcome \in extractTextFromFile(serverUploads[serverReq].mimetype)
  /\ extracted' = <<outcome>>
  /\ IF outcome.status = "threw"
     THEN serverCatch(outcome.error) /\ UNCHANGED cvDrafts
     ELSE LET processedCv == applyEHSFormattingRules(outcome.value[1])
          IN IF processedCv.status = "threw"
             THEN serverCatch(processedCv.error) /\ UNCHANGED cvDrafts
             ELSE /\ cvDrafts' =
                       [id \in DOMAIN cvDrafts \cup {serverReq} |->
                          IF id = serverReq THEN processedCv.value[1]
                          ELSE cvDrafts[id]]
                  /\ serverUploads' =
                       [serverUploads EXCEPT ![serverReq].status = "completed",
                                             ![serverReq].progress = 100]
                  /\ serverRes' =
                       <<[status |-> 200, success |-> TRUE, error |-> ""]>>
                  /\ spc' = "idle"
  /\ UNCHANGED <<serverReq, serverOthers>>

SomePostServerProcess == \E id \in ServerRequestIds : PostServerProcess(id)

SomeExtractTextSettles ==
  \E t \in ServerTexts \cup {"Failed to read file", "Unsupported file type"} :
    \E outcome \in {Returned(t), Threw(t)} : ExtractTextSettles(outcome)

NextServer ==
  \/ SomePostServerProcess
  \/ FirstDelayElapses
  \/ SecondDelayElapses
  \/ SomeExtractTextSettles

SpecServer == InitServer /\ [][NextServer]_vars

\* C25: when the text of the upload's file was extracted, the server's
\* process handler ends with the upload 'completed' at progress 100 and a
\* draft stored for it in cvDrafts, and not with the upload 'failed'.
C25_ExtractedUploadCompletes ==
  ( /\ spc = "idle"
    /\ serverRes # <<>>
    /\ extracted # <<>>
    /\ extracted[1].status = "returned" )
  => /\ serverUploads[serverReq].status = "completed"
     /\ serverUploads[serverReq].progress = 100
     /\ serverReq \in DOMAIN cvDrafts

(***************************************************************************)
(* SpecDedup: deduplicateAndMergeExperience and                            *)
(* deduplicateAndMergeEducation applied to lists of entries.               *)
(***************************************************************************)
DedupCompanies == {"Acme", "Acme-Co"}

DedupRoles == {"Founder", "Co-Founder"}

DedupStartDates == {"2020-01", "2021-03"}

MaxEntries == 2

DedupExperiences ==
  {[company |-> c, role |-> r, startDate |-> d] :
     c \in DedupCompanies, r \in DedupRoles, d \in DedupStartDates}

\* education entries over the same strings
DedupEducations ==
  {[institution |-> c, degree |-> r, startDate |-> d] :
     c \in DedupCompanies, r \in DedupRoles, d \in DedupStartDates}

listsOf(entries) ==
  UNION {[1..n -> entries] : n \in 0..MaxEntries}

InitDedup ==
  /\ tz = 0
  /\ pipelineIdle
  /\ normalizeIdle
  /\ rulesIdle
  /\ fileIdle
  /\ routeIdle
  /\ dedupKind \in {"experience", "education"}
  /\ dedupInput \in
       IF dedupKind = "experience" THEN listsOf(DedupExperiences)
       ELSE listsOf(DedupEducations)
  /\ dedupOutput = <<>>
  /\ envIdle
  /\ serverIdle
  /\ supportIdle
  /\ homeIdle

dedupOthers ==
  <<tz, pipelineVars, normalizeVars, ruleVars, fileVars, routeVars, envVars,
    serverVars,
    supportVars,
    homeVars>>

DeduplicateAndMergeExperience ==
  /\ dedupKind = "experience"
  /\ dedupOutput = <<>>
  /\ dedupOutput' = <<deduplicateAndMergeExperience(dedupInput, tz)>>
  /\ UNCHANGED <<dedupKind, dedupInput, dedupOthers>>

DeduplicateAndMergeEducation ==
  /\ dedupKind = "education"
  /\ dedupOutput = <<>>
  /\ dedupOutput' = <<deduplicateAndMergeEducation(dedupInput, tz)>>
  /\ UNCHANGED <<dedupKind, dedupInput, dedupOthers>>

NextDedup ==
  \/ DeduplicateAndMergeExperience
  \/ DeduplicateAndMergeEducation

SpecDedup == InitDedup /\ [][NextDedup]_vars

\* the key fields of an entry
keyFields(entry) ==
  IF dedupKind = "experience"
  THEN <<entry.company, entry.role, entry.startDate>>
  ELSE <<entry.institution, entry.degree, entry.startDate>>

\* C28: deduplication keeps every entry that differs from every earlier
\* entry in at least one key field (company, role, startDate for
\* experience; institution, degree, startDate for education).
C28_OnlyEqualKeyFieldsAreDuplicates ==
  dedupOutput # <<>> =>
    \A i \in 1..Len(dedupInput) :
      (\A j \in 1..(i - 1) : keyFields(dedupInput[j]) # keyFields(dedupInput[i]))
        => \E k \in 1..Len(dedupOutput[1]) : dedupOutput[1][k] = dedupInput[i]

(***************************************************************************)
(* isFileSupported against parseFile (SpecParseFile).                      *)
(***************************************************************************)
\* parseFile refused the file for its type: 'Unsupported file format: ...'
\* or 'File type ... is not supported for parsing'
unsupportedTypeError(call) ==
  /\ call.outcome.status = "threw"
  /\ \/ call.outcome.error
          = failedToParse(unsupportedFormatError(filePath, mime))
     \/ \E t \in {FILE_EXTENSIONS[e] : e \in DOMAIN FILE_EXTENSIONS} :
          call.outcome.error
            = failedToParse("File type " \o t \o " is not supported for parsing")

\* C29: when isFileSupported(mime, filePath) is true, parseFile on an
\* existing file of that type and path calls a parser and does not fail
\* with an unsupported-type error.
C29_SupportedFilesAreParsed ==
  ( /\ supported = <<TRUE>>
    /\ parsed # <<>>
    /\ fileExists )
  => /\ parsed[1].parserCalled
     /\ ~unsupportedTypeError(parsed[1])

(***************************************************************************)
(* SpecHome: the Home page and its FileUpload control.  onDrop is followed *)
(* from one await to the next.                                             *)
(***************************************************************************)
allowedTypes ==
  {"application/pdf",
   "application/vnd.openxmlformats-officedocument.wordprocessingml.document",
   "application/vnd.ms-excel",
   "application/vnd.openxmlformats-officedocument.spreadsheetml.sheet"}

\* the files a visitor drops: every allowed type and one that is not, of a
\* small size, a middle size, the largest size allowed and one byte more
DroppedFiles ==
  {[type |-> t, size |-> n] :
     t \in allowedTypes \cup {"text/plain"},
     n \in {1024, 5 * 1024 * 1024, 10 * 1024 * 1024, 10 * 1024 * 1024 + 1}}

\* what apiService.processCV(file) settles with: a result whose
\* originalContent is '' (apiService.ts line 139), or an ApiError
ProcessCVResults ==
  {Returned([cvData |-> d, originalContent |-> ""]) :
     d \in {"cv of Ann Lee", "cv of Bob Roe", "cv of Cy Poe"}}
    \cup {Threw("HTTP 500: Internal Server Error")}

cannotConnect ==
  "Cannot connect to the backend server. Please ensure the server is running."

\* the catch block of processFile (lines 38-45)
failedToProcess(message) == "Failed to process file: " \o message

InitHome ==
  /\ tz = 0
  /\ pipelineIdle
  /\ normalizeIdle
  /\ rulesIdle
  /\ fileIdle
  /\ routeIdle
  /\ envIdle
  /\ serverIdle
  /\ dedupIdle
  /\ supportIdle
  /\ processingState = "idle"
  /\ homeCvData = <<>>
  /\ originalContent = ""
  /\ showEditor = FALSE
  /\ isProcessing = FALSE
  /\ upc = "idle"
  /\ droppedFile = <<>>
  /\ lastToast = ""
  /\ lastError = ""

homeOthers ==
  <<tz, pipelineVars, normalizeVars, ruleVars, fileVars, routeVars, envVars,
    serverVars, dedupVars, supportVars>>

\* handleFileProcessed(data, original) of Home (lines 566-570)
handleFileProcessed(data, original) ==
  /\ homeCvData' = <<data>>
  /\ originalContent' = original
  /\ processingState' = "completed"

\* the catch block of onDrop (lines 79-82), after processFile's finally
onDropCatch(message) ==
  /\ isProcessing' = FALSE
  /\ lastToast' = "Failed to process CV. Please try again."
  /\ lastError' = message
  /\ upc' = "ended"
  /\ UNCHANGED <<processingState, homeCvData, originalContent>>

\* onDrop(acceptedFiles) up to the first await (lines 51-76 and 20-26): the
\* control is rendered while processingState is 'idle' and the dropzone is
\* disabled while isProcessing
OnDrop(acceptedFiles) ==
  /\ processingState = "idle"
  /\ ~isProcessing
  /\ upc \in {"idle", "ended"}
  /\ IF Len(acceptedFiles) = 0
     THEN UNCHANGED <<processingState, isProcessing, upc, droppedFile, lastToast>>
     ELSE LET file == acceptedFiles[1]
          IN /\ droppedFile' = <<file>>
             /\ IF file.type \notin allowedTypes
                THEN /\ lastToast' = "Please upload a PDF, DOCX, or Excel file"
                     /\ UNCHANGED <<processingState, isProcessing, upc>>
                ELSE IF file.size > 10 * 1024 * 1024
                THEN /\ lastToast' = "File size must be less than 10MB"
                     /\ UNCHANGED <<processingState, isProcessing, upc>>
                ELSE /\ lastToast' = "Processing your CV..."
                     /\ isProcessing' = TRUE
                     /\ processingState' = "processing"
                     /\ upc' = "testing"
  /\ UNCHANGED <<homeCvData, originalContent, showEditor, lastError, homeOthers>>

\* apiService.testConnection() settles (lines 25-32)
TestConnectionSettles(isConnected) ==
  /\ upc = "testing"
  /\ IF isConnected
     THEN /\ upc' = "processing"
          /\ UNCHANGED <<processingState, homeCvData, originalContent,
                         isProcessing, lastToast, lastError>>
     ELSE onDropCatch(failedToProcess(cannotConnect))
  /\ UNCHANGED <<showEditor, droppedFile, homeOthers>>

\* apiService.processCV(file) settles (lines 32-48 and 76-82)
ProcessCVSettles(outcome) ==
  /\ upc = "processing"
  /\ IF outcome.status = "threw"
     THEN onDropCatch(failedToProcess(outcome.error))
     ELSE /\ isProcessing' = FALSE
          /\ handleFileProcessed(outcome.value[1].cvData,
                                 outcome.value[1].originalContent)
          /\ lastToast' = "CV processed successfully!"
          /\ upc' = "ended"
          /\ UNCHANGED lastError
  /\ UNCHANGED <<showEditor, droppedFile, homeOthers>>

\* handleEditToggle of Home (lines 576-578); its button is disabled while
\* cvData is null
HandleEditToggle ==
  /\ homeCvData # <<>>
  /\ showEditor' = ~showEditor
  /\ UNCHANGED <<processingState, homeCvData, originalContent, isProcessing, upc,
                 droppedFile, lastToast, lastError, homeOthers>>

SomeOnDrop ==
  \E acceptedFiles \in {<<>>} \cup {<<f>> : f \in DroppedFiles} :
    OnDrop(acceptedFiles)

SomeTestConnectionSettles ==
  \E isConnected \in BOOLEAN : TestConnectionSettles(isConnected)

SomeProcessCVSettles == \E outcome \in ProcessCVResults : ProcessCVSettles(outcome)

NextHome ==
  \/ SomeOnDrop
  \/ SomeTestConnectionSettles
  \/ SomeProcessCVSettles
  \/ HandleEditToggle

SpecHome == InitHome /\ [][NextHome]_vars

\* C30: when an upload attempt that put processingState into 'processing'
\* has ended, the page has left 'processing': it is 'completed' when the
\* processing succeeded and back in the state that shows the upload control
\* ('idle') when it failed.
C30_ProcessingStateIsLeft ==
  upc = "ended" =>
    IF lastToast = "CV processed successfully!"
    THEN processingState = "completed"
    ELSE processingState = "idle"

====
